---- MODULE Spec2Model ----
(***************************************************************************)
(* A model of the stamp renderer of src/stamps/python/png_stamp_generator.py *)
(* (class PNGStampGenerator): construction of the canvas, the loop of      *)
(* generate() over the text elements, and the linear, circular and variant *)
(* paths of _draw_text_with_pil / _draw_circular_text (Spec); the           *)
(* construction alone over a range of sizes (CanvasSpec); and the          *)
(* resolution of fonts with weights and variable faces by two generators   *)
(* that share the directory of instance files (FontSpec); and of           *)
(* process_json_data of src/basket/python/basket_order_generator.py        *)
(* (BasketSpec).                                                           *)
(*                                                                         *)
(* Numbers.  Python floats are modelled by exact integer arithmetic:       *)
(*   - scale_factor is the double nearest to 1000/m; it is kept as the     *)
(*     pair num/den and every int(x * scale_factor) of the source is       *)
(*     computed by IntMulScale, which reproduces the IEEE-754 rounding of  *)
(*     the quotient and of the product;                                    *)
(*   - angles are kept in micro-degrees, with pi taken as 355/113;         *)
(*   - letter spacing is kept in tenths.                                   *)
(* Fonts.  A glyph's width at a pixel size is its advance (in 1/1000 em)   *)
(* scaled and rounded to whole pixels, as a hinted face reports it.        *)
(***************************************************************************)
EXTENDS Integers, Sequences, FiniteSets, TLC

VARIABLES
    pc,                    \* "new", "constructed", "loop", "done"
    data,                  \* the request: template, textElements, fontMapping
    files,                 \* the font files that exist on disk
    scale_factor,          \* self.scale_factor, as [num, den]
    width, height,         \* self.width, self.height
    font_map,              \* self.font_map, in insertion order
    font_size_adjustments, \* self.font_size_adjustments
    img,                   \* what was pasted on the image, in order
    k,                     \* the index of the next element of generate's loop
    cur,                   \* the locals of the last _draw_text_with_pil call
    result,                \* what generate returned
    disk,                  \* uploads/temp_fonts: the state of each instance file
    gens,                  \* the generators (one per request) resolving fonts
    basket_pc,             \* process_json_data: "new", "slide", "fill", "save", "done"
    orders_data,           \* the orders passed to process_json_data
    prs,                   \* the slides of the presentation, in order
    order_index,           \* index of the order of the loop, from 0
    slides_created,        \* the counter of process_json_data
    errors,                \* the messages of the orders that raised
    basket_result          \* what process_json_data returned

vars == <<pc, data, files, scale_factor, width, height, font_map,
          font_size_adjustments, img, k, cur, result, disk, gens,
          basket_pc, orders_data, prs, order_index, slides_created, errors,
          basket_result>>

\* The state of the rendering of one request.
mainvars == <<pc, data, files, scale_factor, width, height, font_map,
              font_size_adjustments, img, k, cur, result>>

\* The state of font resolution with weights and variable faces.
fontvars == <<disk, gens>>

\* The state of process_json_data of the basket order generator.
basketvars == <<basket_pc, orders_data, prs, order_index, slides_created,
                errors, basket_result>>

\* ------------------------------------------------------------- arithmetic

Max(a, b) == IF a >= b THEN a ELSE b

Min(a, b) == IF a <= b THEN a ELSE b

RECURSIVE Pow2(_)
Pow2(e) == IF e <= 0 THEN 1 ELSE 2 * Pow2(e - 1)

\* floor(log2(n / d)) for n, d >= 1
RECURSIVE FloorLog2From(_, _, _)
FloorLog2From(n, d, e) ==
    IF n >= 2 * d * Pow2(e) THEN FloorLog2From(n, d, e + 1) ELSE e

RECURSIVE CeilLog2From(_, _, _)
CeilLog2From(n, d, j) ==
    IF n * Pow2(j) >= d THEN j ELSE CeilLog2From(n, d, j + 1)

FloorLog2(n, d) ==
    IF n >= d THEN FloorLog2From(n, d, 0) ELSE 0 - CeilLog2From(n, d, 0)

\* 2^e mod m
RECURSIVE PowMod2(_, _)
PowMod2(e, m) == IF e = 0 THEN 1 % m ELSE (2 * PowMod2(e - 1, m)) % m

\* round half up of n / d, d > 0, n >= 0
RoundDiv(n, d) == (2 * n + d) \div (2 * d)

\* <<q, r>> with a * b = q * c + r and 0 <= r < c, without forming a * b
RECURSIVE MulDivQR(_, _, _)
MulDivQR(a, b, c) ==
    IF a = 0 THEN <<0, 0>>
    ELSE LET h == MulDivQR(a \div 2, b, c)
             t == 2 * h[2] + (a % 2) * b
         IN  <<2 * h[1] + (t \div c), t % c>>

\* ---------------------------------------------------------------- canvas

target_resolution == 1000

MantissaBits == 52

\* The scale factor of a declared size: target / max_dimension when the
\* longest side is below the target, 1.0 otherwise.
ScaleOf(w0, h0) ==
    LET max_dimension == Max(w0, h0)
    IN  IF max_dimension < target_resolution
        THEN [num |-> target_resolution, den |-> max_dimension]
        ELSE [num |-> 1, den |-> 1]

\* The remainder that decides how the double nearest to a/b was rounded:
\* 0 when a/b is a double, below b/2 when it was rounded down.
QuotientRem(a, b) ==
    LET eq == FloorLog2(a, b)
    IN  (a * PowMod2(MantissaBits - eq, b)) % b

\* Whether the double product (h2/2) * fl(a/b), whose exact value is the
\* integer kk >= 1, comes out below kk.
ProductBelow(h2, a, b, kk) ==
    LET r    == QuotientRem(a, b)
        eq   == FloorLog2(a, b)
        ek   == FloorLog2(kk, 1)
        half == IF kk = Pow2(ek) THEN 1 ELSE 0
    IN  /\ r # 0
        /\ 2 * r < b
        /\ 4 * h2 * r > b * Pow2(ek - eq + 2 - half)

\* int((h2 / 2) * (a / b)) in double arithmetic, for integers h2, a >= 0 and
\* b > 0: the quotient is rounded to a double, the product is rounded to a
\* double, and int() truncates.
IntMulQuot(h2, a, b) ==
    LET n  == h2 * a
        d  == 2 * b
        kk == n \div d
    IN  IF n % d # 0 \/ kk = 0 THEN kk
        ELSE IF ProductBelow(h2, a, b, kk) THEN kk - 1 ELSE kk

\* int((h2 / 2) * scale_factor)
IntMulScaleHalves(h2, sc) == IntMulQuot(h2, sc.num, sc.den)

\* int(x * scale_factor)
IntMulScale(x, sc) == IntMulScaleHalves(2 * x, sc)

\* ----------------------------------------------------------------- fonts

Some(x) == <<x>>

Nothing == <<>>

IsSome(o) == o # <<>>

Val(o) == o[1]

\* A family name is the sequence of its parts between '-' characters:
\* "Montserrat-Bold" is <<"Montserrat", "Bold">>.
LowerTok(t) ==
    CASE t = "Arial" -> "arial"
      [] t = "Montserrat" -> "montserrat"
      [] t = "Bold" -> "bold"
      [] t = "Foo" -> "foo"
      [] t = "Inter" -> "inter"
      [] OTHER -> t

LowerName(name) == [i \in 1..Len(name) |-> LowerTok(name[i])]

default_fonts ==
    << "/System/Library/Fonts/Arial.ttf",
       "/usr/share/fonts/truetype/dejavu/DejaVuSans.ttf",
       "C:/Windows/Fonts/arial.ttf" >>

\* The index of the first TRUE of a sequence of test results, 0 when there is
\* none: the place where a loop over the items stops.
FirstIndex(hits) ==
    IF \E i \in 1..Len(hits) : hits[i]
    THEN CHOOSE i \in 1..Len(hits) :
             /\ hits[i]
             /\ \A j \in 1..(i - 1) : ~hits[j]
    ELSE 0

\* dict assignment: the value of an existing key is replaced in place, a new
\* key is appended.
DictSet(map, entry) ==
    LET i == FirstIndex([j \in 1..Len(map) |-> map[j].name = entry.name])
    IN  IF i = 0 THEN Append(map, entry) ELSE [map EXCEPT ![i] = entry]

RECURSIVE DictSetAll(_, _)
DictSetAll(map, entries) ==
    IF entries = <<>> THEN map
    ELSE DictSetAll(DictSet(map, Head(entries)), Tail(entries))

\* A font map that takes every entry of fontMapping, its file existing or not.
BuildFontMapUnchecked(fontMapping, fs) ==
    LET d  == FirstIndex([i \in 1..Len(default_fonts) |-> default_fonts[i] \in fs])
        m1 == DictSetAll(<<>>, fontMapping)
    IN  IF d = 0 THEN m1
        ELSE DictSet(m1, [name |-> <<"Arial">>, path |-> default_fonts[d]])

\* _build_font_map: the entries of fontMapping whose path exists, then
\* 'Arial' bound to the first system font that exists.  (The directory
\* uploads/fonts, scanned only without a fontMapping, is absent here.)
BuildFontMap(fontMapping, fs) ==
    LET kept == SelectSeq(fontMapping, LAMBDA e : e.path \in fs)
        d    == FirstIndex([i \in 1..Len(default_fonts) |-> default_fonts[i] \in fs])
        m1   == DictSetAll(<<>>, kept)
    IN  IF d = 0 THEN m1
        ELSE DictSet(m1, [name |-> <<"Arial">>, path |-> default_fonts[d]])

NoFont == [name |-> <<>>, path |-> ""]

\* _get_font_info: exact name, then case-insensitive, then the base family
\* of a suffixed name, then 'Arial', then the first entry, then None.
GetFontInfo(map, font_family) ==
    LET exact == FirstIndex([i \in 1..Len(map) |-> map[i].name = font_family])
        ci    == FirstIndex([i \in 1..Len(map) |-> LowerName(map[i].name) = LowerName(font_family)])
        base  == IF Len(font_family) > 1 THEN <<font_family[1]>> ELSE <<>>
        bi    == FirstIndex([i \in 1..Len(map) |-> map[i].name = base])
        pre   == FirstIndex([i \in 1..Len(map) |-> Len(map[i].name) > 1 /\ <<map[i].name[1]>> = base])
        arial == FirstIndex([i \in 1..Len(map) |-> map[i].name = <<"Arial">>])
    IN  IF font_family = <<>> \/ font_family = <<"">>
        THEN IF arial # 0 THEN map[arial]
             ELSE IF map # <<>> THEN map[1] ELSE NoFont
        ELSE IF exact # 0 THEN map[exact]
        ELSE IF ci # 0 THEN map[ci]
        ELSE IF Len(font_family) > 1 /\ bi # 0 THEN map[bi]
        ELSE IF Len(font_family) > 1 /\ pre # 0 THEN map[pre]
        ELSE IF arial # 0 THEN map[arial]
        ELSE IF map # <<>> THEN map[1]
        ELSE NoFont

\* ImageFont.load_default(): a face of one fixed size.
DefaultFontSize == 10

load_default == [path |-> "", size |-> DefaultFontSize, default |-> TRUE]

\* _get_pil_font: the resolved face at int(font_size); ImageFont.truetype
\* refuses a size that is not positive, and every fallback of the handler
\* asks for the same size, so the result is then load_default().
GetPilFont(map, font_family, font_size) ==
    LET info == GetFontInfo(map, font_family)
    IN  IF info = NoFont \/ font_size <= 0 THEN load_default
        ELSE [path |-> info.path, size |-> font_size, default |-> FALSE]

\* Glyph advances in 1/1000 em.
UnitsPerEm == 1000

Advance(c) ==
    CASE c = "i" -> 222
      [] c = "a" -> 556
      [] c = "m" -> 833
      [] c = "I" -> 278
      [] c = "A" -> 667
      [] c = "M" -> 833
      [] OTHER -> 556

\* font.getbbox(char): the width of one glyph in whole pixels.
CharWidth(font, c) == RoundDiv(Advance(c) * font.size, UnitsPerEm)

RECURSIVE SumWidths(_, _)
SumWidths(font, text) ==
    IF text = <<>> THEN 0
    ELSE CharWidth(font, Head(text)) + SumWidths(font, Tail(text))

\* font.getbbox(text): the width of a run.
TextWidth(font, text) == SumWidths(font, text)

\* str.upper()
UpperChar(c) ==
    CASE c = "i" -> "I"
      [] c = "a" -> "A"
      [] c = "m" -> "M"
      [] OTHER -> c

Upper(text) == [i \in 1..Len(text) |-> UpperChar(text[i])]

\* A text that is left in its order.
ReverseNot(text) == text

\* text[::-1]
Reverse(text) == [i \in 1..Len(text) |-> text[Len(text) + 1 - i]]

\* 'montserrat', 'arial' or 'helvetica' in font.path.lower()
PathNamesBoostedFace(path) ==
    path \in { "/System/Library/Fonts/Arial.ttf",
               "C:/Windows/Fonts/arial.ttf",
               "/fonts/Montserrat.ttf" }

\* _hex_to_rgb succeeds on '#RRGGBB'
ValidColors == { "#000000", "#FF0000" }

HexToRgbRaises(color) == color \notin ValidColors

\* ------------------------------------------------------- one text element

\* for element in self.text_elements: if element.get('value') == lookup_text
FindElement(elems, lookup_text) ==
    FirstIndex([i \in 1..Len(elems) |-> elems[i].value = lookup_text])
DefaultMargin == 10

\* margin = int(10 * scale_factor), or int((textPadding / 2) * scale_factor)
MarginOf(custom_padding, sc) ==
    IF IsSome(custom_padding)
    THEN IntMulScaleHalves(Val(custom_padding), sc)
    ELSE IntMulScale(DefaultMargin, sc)

\* The width the text may take: the canvas width less both margins, the
\* height when the text is rotated to (nearly) vertical.
MaxAvailableWidth(w, h, margin, rotation) ==
    IF rotation % 180 # 0 /\ rotation % 180 > 45 /\ rotation % 180 < 135
    THEN h - (margin * 2)
    ELSE w - (margin * 2)

\* int(x * (a / b)) for a of either sign: int() truncates toward zero.
TruncMulQuot(x, a, b) ==
    IF a >= 0 THEN IntMulQuot(2 * x, a, b) ELSE 0 - IntMulQuot(2 * x, 0 - a, b)

\* text_scale_factor = max_available_width / text_width
\* adjusted_font_size = int(scaled_font_size * text_scale_factor)
AdjustedFontSize(scaled_font_size, avail, text_width) ==
    TruncMulQuot(scaled_font_size, avail, text_width)

One == [n |-> 1, d |-> 1]

\* The face is loaded again at the adjusted size and the text measured again.
LinearShrunk(map, family, text, avail, w0, adjusted) ==
    LET font1 == GetPilFont(map, family, adjusted)
    IN  [ font              |-> font1,
          final_font_size   |-> adjusted,
          first_width       |-> w0,
          text_width        |-> TextWidth(font1, text),
          shrunk            |-> TRUE,
          text_scale_factor |-> [n |-> avail, d |-> w0] ]

\* if text_width > max_available_width: one adjustment, no loop
LinearMeasured(map, family, text, scaled_font_size, avail, font0, w0) ==
    IF w0 > avail
    THEN LinearShrunk(map, family, text, avail, w0,
                      AdjustedFontSize(scaled_font_size, avail, w0))
    ELSE [ font              |-> font0,
           final_font_size   |-> scaled_font_size,
           first_width       |-> w0,
           text_width        |-> w0,
           shrunk            |-> FALSE,
           text_scale_factor |-> One ]

LinearLoaded(map, family, text, scaled_font_size, avail, font0) ==
    LinearMeasured(map, family, text, scaled_font_size, avail, font0,
                   TextWidth(font0, text))

\* The fit step of the linear path: measured once, scaled down once.
LinearFit(map, family, text, scaled_font_size, avail) ==
    LinearLoaded(map, family, text, scaled_font_size, avail,
                 GetPilFont(map, family, scaled_font_size))

\* dict assignment on font_size_adjustments
PutEntry(adj, id, entry) ==
    [x \in (DOMAIN adj) \cup {id} |-> IF x = id THEN entry ELSE adj[x]]

LinearEntry(font_size, scaled_font_size, fit, sc) ==
    [ originalSize    |-> [n |-> font_size, d |-> 1],
      scaledSize      |-> scaled_font_size,
      finalSize       |-> fit.final_font_size,
      adjustedSize    |-> [n |-> fit.final_font_size * sc.den, d |-> sc.num],
      scaleFactor     |-> [n |-> sc.num, d |-> sc.den],
      textScaleFactor |-> fit.text_scale_factor,
      reason          |-> "none" ]

\* ------------------------------------------------------------- circular

MicroDeg == 1000000

MinFontSize == 8

FullCircle == 360

\* A limit that takes the declared number as it is.
MaxAngleLimitUnclamped(maxAngle) ==
    IF maxAngle.kind = "number" THEN maxAngle.v ELSE FullCircle

\* maxAngle: a number is clamped to [0, 360]; absent or not numeric is 360.
MaxAngleLimit(maxAngle) ==
    LET raw == IF maxAngle.kind = "number" THEN maxAngle.v ELSE FullCircle
    IN  Min(Max(0, raw), FullCircle)

\* calculate_text_metrics.  The radius is R * sc.num / sc.den pixels, pi is
\* 355/113, the spacing factor is kept in 1/4000: letter spacing in tenths,
\* times 1.1 (22/20) below a tenth of the circumference or 0.95 (19/20)
\* above half of it, times 1.05 (21/20) for a face whose path names
\* Montserrat, Arial or Helvetica.
TextMetrics(font, text_to_render, R, sc, ls10) ==
    LET total_width == SumWidths(font, text_to_render)
        lhs == total_width * 113 * sc.den
        la  == IF lhs < 71 * R * sc.num THEN 22
               ELSE IF lhs > 355 * R * sc.num THEN 19 ELSE 20
        fa  == IF PathNamesBoostedFace(font.path) THEN 21 ELSE 20
        sf  == ls10 * la * fa
        qr  == MulDivQR(total_width * sf, sc.den * (1017000 \div sc.num), 71 * R)
    IN  [ total_width     |-> total_width,
          spacing_factor  |-> sf,
          total_angle     |-> qr[1],
          total_angle_rem |-> qr[2] ]

\* total_angle_deg > max_angle_limit
AngleExceeds(m, max_angle_limit) ==
    \/ m.total_angle > max_angle_limit * MicroDeg
    \/ m.total_angle = max_angle_limit * MicroDeg /\ m.total_angle_rem > 0

\* adjusted_font_size = max(8, int(font_size * (max_angle_limit / total_angle_deg)))
CircularAdjustedSize(font_size, max_angle_limit, total_angle) ==
    Max(MinFontSize,
        MulDivQR(font_size, max_angle_limit * MicroDeg, total_angle)[1])

\* The name under which the face's path is found in the font map.
FamilyOfPath(map, path) ==
    LET i == FirstIndex([j \in 1..Len(map) |-> map[j].path = path])
    IN  IF i = 0 THEN <<>> ELSE map[i].name

\* The face is loaded again at the adjusted size and the metrics are
\* calculated again; whatever they say, the text is drawn at that size.
CircularReloaded(text_to_render, pos, sc, limit, m0, adjusted, font1) ==
    LET m1 == TextMetrics(font1, text_to_render, pos.radius, sc, pos.letterSpacing)
    IN  [ font              |-> font1,
          final_font_size   |-> adjusted,
          max_angle_limit   |-> limit,
          first_angle       |-> m0.total_angle,
          total_angle       |-> m1.total_angle,
          total_angle_rem   |-> m1.total_angle_rem,
          shrunk            |-> TRUE,
          scale_factor      |-> [n |-> limit * MicroDeg, d |-> m0.total_angle] ]

CircularShrunk(map, font, text_to_render, pos, sc, limit, m0, adjusted) ==
    CircularReloaded(text_to_render, pos, sc, limit, m0, adjusted,
                     GetPilFont(map, FamilyOfPath(map, font.path), adjusted))

\* if max_angle_limit > 0 and total_angle_deg > max_angle_limit: one adjustment
CircularMeasured(map, font, font_size, text_to_render, pos, sc, limit, m0) ==
    IF limit > 0 /\ AngleExceeds(m0, limit)
    THEN CircularShrunk(map, font, text_to_render, pos, sc, limit, m0,
                        CircularAdjustedSize(font_size, limit, m0.total_angle))
    ELSE [ font              |-> font,
           final_font_size   |-> font_size,
           max_angle_limit   |-> limit,
           first_angle       |-> m0.total_angle,
           total_angle       |-> m0.total_angle,
           total_angle_rem   |-> m0.total_angle_rem,
           shrunk            |-> FALSE,
           scale_factor      |-> One ]

\* The fit step of the circular path: measured once, scaled down once.
CircularFit(map, font, font_size, text_to_render, pos, sc) ==
    CircularMeasured(map, font, font_size, text_to_render, pos, sc,
                     MaxAngleLimit(pos.maxAngle),
                     TextMetrics(font, text_to_render, pos.radius, sc,
                                 pos.letterSpacing))

\* An entry of the circular path that names its reason fit_max_angle.
CircularEntryFitMaxAngle(fit, sc) ==
    [ originalSize    |-> [n |-> fit.final_font_size * sc.den, d |-> sc.num],
      scaledSize      |-> fit.final_font_size,
      finalSize       |-> fit.final_font_size,
      adjustedSize    |-> [n |-> fit.final_font_size * sc.den, d |-> sc.num],
      scaleFactor     |-> fit.scale_factor,
      textScaleFactor |-> One,
      reason          |-> "fit_max_angle" ]

\* The entry of the circular path; font_size was already overwritten by
\* adjusted_font_size when the entry is built.
CircularEntry(fit, sc) ==
    [ originalSize    |-> [n |-> fit.final_font_size * sc.den, d |-> sc.num],
      scaledSize      |-> fit.final_font_size,
      finalSize       |-> fit.final_font_size,
      adjustedSize    |-> [n |-> fit.final_font_size * sc.den, d |-> sc.num],
      scaleFactor     |-> fit.scale_factor,
      textScaleFactor |-> One,
      reason          |-> "circular_text_max_angle" ]

\* ------------------------------------------------- _draw_text_with_pil

NoException == ""

Event(idx, what, ch) == [elem |-> idx, what |-> what, ch |-> ch]

GlyphEvents(idx, text_to_render) ==
    [i \in 1..Len(text_to_render) |-> Event(idx, "glyph", text_to_render[i])]

CurBase(idx) ==
    [ idx |-> idx, path |-> "skip", match |-> 0, element_id |-> "",
      margin |-> 0, scaled_font_size |-> 0, final_font_size |-> 0,
      text_width |-> 0, avail |-> 0, shrunk |-> FALSE,
      max_angle_limit |-> 0, total_angle |-> 0, total_angle_rem |-> 0,
      wrote |-> "", raised |-> NoException, font_path |-> "",
      place_x |-> 0, start_angle |-> [deg |-> 0, off |-> 0],
      end_angle |-> [deg |-> 0, off |-> 0], glyphs |-> <<>>,
      placed |-> [n |-> 0, d |-> 1] ]

NoEntry ==
    [ originalSize |-> One, scaledSize |-> 0, finalSize |-> 0,
      adjustedSize |-> One, scaleFactor |-> One, textScaleFactor |-> One,
      reason |-> "" ]

\* except Exception (line 1266): logged, nothing leaves _draw_circular_text.
ExceptCircular(exc) == NoException

\* except Exception (line 907): logged; the fallback drawing runs in a try
\* of its own, so nothing leaves _draw_text_with_pil.
ExceptDraw(exc) == NoException

\* tt.getGlyphOrder() of the face: the glyph names, each in its parts
\* between '.' characters ("a.1" is <<"a", "1">>).  The glyph of a letter is
\* named by the letter; the ones of the digit 1 and of the space are named
\* one and space.
GlyphOrder ==
    << <<"", "notdef">>, <<"space">>, <<"one">>, <<"A">>, <<"a", "2">>,
       <<"a">>, <<"a", "1">>, <<"M">>, <<"m">>, <<"i">>, <<"I">>,
       <<"A", "1">> >>

\* The order of str for two names of one base: "a" < "a.1" < "a.2"
NameBefore(n1, n2) ==
    \/ Len(n1) < Len(n2)
    \/ Len(n1) = 2 /\ Len(n2) = 2 /\ n1[2] = "1" /\ n2[2] = "2"

\* list.sort()
RECURSIVE SortNames(_)
SortNames(names) ==
    IF names = {} THEN <<>>
    ELSE LET first == CHOOSE n \in names :
                          \A o \in names \ {n} : NameBefore(n, o)
         IN  <<first>> \o SortNames(names \ {first})

\* _analyze_font_variants(font_path).get(char, [char]): the sorted glyph
\* names whose part before the first '.' is one character long and is the
\* character
AnalyzeFontVariants(char) ==
    LET names == { GlyphOrder[i] : i \in { j \in 1..Len(GlyphOrder) :
                                              /\ GlyphOrder[j][1] \in
                                                   { "a", "m", "i", "A", "M",
                                                     "I", "1", " " }
                                              /\ GlyphOrder[j][1] = char } }
    IN  IF names = {} THEN << <<char>> >> ELSE SortNames(names)

\* _get_glyph_variant
GetGlyphVariant(char, variant_index) ==
    IF /\ IsSome(variant_index)
       /\ 0 <= Val(variant_index)
       /\ Val(variant_index) < Len(AnalyzeFontVariants(char))
    THEN AnalyzeFontVariants(char)[Val(variant_index) + 1]
    ELSE AnalyzeFontVariants(char)[1]

\* glyph_name_to_index.get(glyph_name, glyph_name_to_index.get(char, 0))
GlyphIndex(glyph_name, char) ==
    LET byName == FirstIndex([i \in 1..Len(GlyphOrder) |-> GlyphOrder[i] = glyph_name])
        byChar == FirstIndex([i \in 1..Len(GlyphOrder) |-> GlyphOrder[i] = <<char>>])
    IN  IF byName # 0 THEN byName - 1
        ELSE IF byChar # 0 THEN byChar - 1
        ELSE 0

\* The first loop of _render_text_with_variants: the index of the glyph
\* loaded for each character.
RenderedGlyphs(text, first_variant, last_variant) ==
    [ i \in 1..Len(text) |->
        GlyphIndex(GetGlyphVariant(text[i],
                                   IF i = 1 /\ IsSome(first_variant)
                                   THEN first_variant
                                   ELSE IF i = Len(text) /\ IsSome(last_variant)
                                   THEN last_variant
                                   ELSE Nothing),
                   text[i]) ]

\* The width of the strip _render_text_with_variants returns: the advances
\* and int(font_size * 0.5) of extra space on each side.
VariantStripWidth(text, font_size) ==
    SumWidths([size |-> font_size], text) + 2 * (font_size \div 2)

\* The height of the strip: the ink of the glyphs, taken as the pixel size,
\* and int(font_size * 0.5) of extra space above and below.
VariantStripHeight(font_size) == font_size + 2 * (font_size \div 2)

\* rendered_text.resize((new_width, new_height)) raises unless both are
\* positive; the handler of line 541 then goes on to the ordinary rendering.
VariantResizeRaises(text, scaled_font_size, margin, w) ==
    LET strip == VariantStripWidth(text, scaled_font_size)
        avail == w - (margin * 2)
    IN  /\ strip > avail
        /\ \/ avail <= 0
           \/ TruncMulQuot(strip, avail, strip) <= 0
           \/ TruncMulQuot(VariantStripHeight(scaled_font_size), avail, strip) <= 0

\* int(place_x) of lines 494-503: place_x = x * self.scale_factor is
\* overwritten in every branch of the alignment.
VariantPlaceX(x, text_align, sc, w, text_width, margin) ==
    IF text_align = "center" THEN (w - text_width) \div 2
    ELSE IF text_align = "right" THEN w - text_width - margin
    ELSE margin

\* The variant path, when the strip was rendered: scaled as a bitmap when it
\* is wider than the canvas less both margins, pasted, and nothing recorded.
DrawVariant(idx, text, scaled_font_size, x, text_align, sc, margin, w, base) ==
    LET strip == VariantStripWidth(text, scaled_font_size)
        avail == w - (margin * 2)
        tw    == IF strip > avail THEN TruncMulQuot(strip, avail, strip) ELSE strip
    IN  [ draws  |-> <<Event(idx, "variant", "")>>,
          adj_id |-> "", entry |-> NoEntry, escaped |-> NoException,
          cur    |-> [base EXCEPT !.path = "variant", !.text_width = tw,
                                  !.avail = avail,
                                  !.place_x = VariantPlaceX(x, text_align, sc, w,
                                                            tw, margin)] ]

\* The angles of the placement are kept exactly, as deg degrees and off
\* half pixels of arc: a glyph of width w takes the angle of 2 w half pixels,
\* (w / radius) * spacing_factor * (180 / pi) degrees.
Angle(deg, off) == [deg |-> deg, off |-> off]

\* final_total_angle_deg / 2 in micro-degrees, rounded up
HalfAngleCeil(total_angle, total_angle_rem) ==
    total_angle \div 2
        + (IF total_angle % 2 = 1 \/ total_angle_rem > 0 THEN 1 ELSE 0)

\* x % 360 for x = base_angle - final_total_angle_deg / 2: the full turns
\* that are added to x
TurnsAdded(base_angle, m) ==
    0 - ((base_angle * MicroDeg - HalfAngleCeil(m.total_angle, m.total_angle_rem))
            \div (FullCircle * MicroDeg))

\* A start that takes the whole angle off the base angle.
StartAngleUncentered(layout_mode, base_angle, m) ==
    IF layout_mode = "centerAligned"
    THEN Angle(base_angle + FullCircle * TurnsAdded(base_angle, m),
               0 - 2 * m.total_width)
    ELSE Angle(base_angle, 0)

\* start_angle of lines 1165-1169
StartAngle(layout_mode, base_angle, m) ==
    IF layout_mode = "centerAligned"
    THEN Angle(base_angle + FullCircle * TurnsAdded(base_angle, m),
               0 - m.total_width)
    ELSE Angle(base_angle, 0)

\* The loop of lines 1178-1188: current_angle after the glyphs.
RECURSIVE AngleAfter(_, _, _)
AngleAfter(font, text, current_angle) ==
    IF text = <<>> THEN current_angle
    ELSE AngleAfter(font, Tail(text),
                    Angle(current_angle.deg,
                          current_angle.off + 2 * CharWidth(font, Head(text))))

\* Lines 1191-1201: an arc of more than 10 degrees is spread again over
\* final_total_angle_deg from the start angle; current_angle after it.
EvenlySpread(start_angle, current_angle, m) ==
    IF AngleExceeds(m, 10)
    THEN Angle(start_angle.deg, start_angle.off + 2 * m.total_width)
    ELSE current_angle

\* The glyphs are placed from the start angle on.
CircularPlaced(base, font, rev, m, start_angle) ==
    [ base EXCEPT !.start_angle = start_angle,
                  !.end_angle = EvenlySpread(start_angle,
                                    AngleAfter(font, rev, start_angle), m) ]

\* The metrics at the final size and the start angle.
CircularStarted(base, font, rev, pos, m) ==
    CircularPlaced(base, font, rev, m,
                   StartAngle(pos.layoutMode, pos.baseAngle, m))

\* The glyphs are drawn and, when the size was adjusted and the element has
\* an id, the entry is written.
DrawCircularFitted(idx, rev, id, sc, pos, base, fit) ==
    [ draws   |-> GlyphEvents(idx, rev),
      adj_id  |-> IF fit.shrunk /\ id # "" THEN id ELSE "",
      entry   |-> CircularEntry(fit, sc),
      escaped |-> NoException,
      cur     |-> [CircularStarted(base, fit.font, rev, pos,
                                   TextMetrics(fit.font, rev, pos.radius, sc,
                                               pos.letterSpacing))
                       EXCEPT !.path = "circular",
                               !.final_font_size = fit.final_font_size,
                               !.shrunk = fit.shrunk,
                               !.max_angle_limit = fit.max_angle_limit,
                               !.total_angle = fit.total_angle,
                               !.total_angle_rem = fit.total_angle_rem,
                               !.wrote = IF fit.shrunk /\ id # "" THEN id ELSE ""] ]

\* _draw_circular_text; a radius of 0 raises ZeroDivisionError in the first
\* calculate_text_metrics, which the function's own handler swallows.
DrawCircular(map, idx, text, font, font_size, me, original_text, sc, base) ==
    LET pos == me.position
        rev == IF pos.baselinePosition = "outside" THEN Reverse(text) ELSE text
        id  == IF original_text # <<>> THEN me.id ELSE ""
    IN  IF pos.radius = 0
        THEN [ draws |-> <<>>, adj_id |-> "", entry |-> NoEntry,
               escaped |-> ExceptCircular("ZeroDivisionError"),
               cur |-> [base EXCEPT !.path = "circular",
                                    !.raised = "ZeroDivisionError"] ]
        ELSE DrawCircularFitted(idx, rev, id, sc, pos, base,
                                CircularFit(map, font, font_size, rev, pos, sc))

\* x * self.scale_factor moved by the alignment, in 1/(2 sc.den) pixels
AlignedX(x, text_align, sc, text_width) ==
    2 * x * sc.num
        - ( IF text_align = "center" THEN text_width * sc.den
            ELSE IF text_align = "right" THEN 2 * text_width * sc.den
            ELSE 0 )

\* A placement that leaves the aligned position as it is.
LinearPlaceXUnclamped(x, text_align, sc, w, text_width, margin) ==
    [ n |-> AlignedX(x, text_align, sc, text_width), d |-> 2 * sc.den ]

\* place_x of lines 729-786, as a fraction of a pixel: the aligned position,
\* moved to the margin when it is left of it, else moved left when the text
\* would end right of the right margin.  (left of getbbox is 0; the tests of
\* lines 878-882 and 899-903 repeat this one and change nothing.)
LinearPlaceX(x, text_align, sc, w, text_width, margin) ==
    IF AlignedX(x, text_align, sc, text_width) < margin * 2 * sc.den
    THEN [ n |-> margin * 2 * sc.den, d |-> 2 * sc.den ]
    ELSE IF AlignedX(x, text_align, sc, text_width) + text_width * 2 * sc.den
                > (w - margin) * 2 * sc.den
    THEN [ n |-> Max(margin, w - text_width - margin) * 2 * sc.den,
           d |-> 2 * sc.den ]
    ELSE [ n |-> AlignedX(x, text_align, sc, text_width), d |-> 2 * sc.den ]

\* The entry is written whenever the element has an id; then the text is
\* placed and drawn.
DrawLinearFitted(idx, font_size, scaled_font_size, x, rotation, text_align, me, sc, w, base, avail, fit) ==
    LET write == me.id # ""
        what  == IF rotation # 0 THEN "rotated"
                 ELSE IF me.position.letterSpacing = 10 THEN "text" ELSE "spaced"
    IN  [ draws   |-> <<Event(idx, what, "")>>,
          adj_id  |-> IF write THEN me.id ELSE "",
          entry   |-> LinearEntry(font_size, scaled_font_size, fit, sc),
          escaped |-> NoException,
          cur     |-> [base EXCEPT !.path = "linear",
                                   !.final_font_size = fit.final_font_size,
                                   !.text_width = fit.text_width,
                                   !.avail = avail,
                                   !.placed = LinearPlaceX(x, text_align, sc, w,
                                                           fit.text_width,
                                                           base.margin),
                                   !.shrunk = fit.shrunk,
                                   !.wrote = IF write THEN me.id ELSE ""] ]

DrawLinearWithin(map, idx, text, family, font_size, scaled_font_size, x, rotation, text_align, me, sc, w, base, avail) ==
    DrawLinearFitted(idx, font_size, scaled_font_size, x, rotation, text_align,
                     me, sc, w, base, avail,
                     LinearFit(map, family, text, scaled_font_size, avail))

\* The linear branch: fit, record, place, draw.
DrawLinear(map, idx, text, family, font_size, scaled_font_size, x, rotation, text_align, me, sc, w, h, margin, base) ==
    DrawLinearWithin(map, idx, text, family, font_size, scaled_font_size,
                     x, rotation, text_align, me, sc, w, base,
                     MaxAvailableWidth(w, h, margin, rotation))

\* The branches of _draw_text_with_pil once the element, the scaled size
\* and the margin are known.
DrawElement(map, fs, sc, w, h, idx, text, font_family, font_size, x, color, rotation, text_align, original_text, variant_ok, me, scaled_font_size, margin, font_info, base) ==
    IF font_info = NoFont \/ font_info.path \notin fs
    THEN [ draws |-> <<>>, adj_id |-> "", entry |-> NoEntry,
           escaped |-> NoException,
           cur |-> [base EXCEPT !.path = "nofont"] ]
    ELSE IF /\ IsSome(me.firstVariant) \/ IsSome(me.lastVariant)
            /\ variant_ok
            /\ ~VariantResizeRaises(text, scaled_font_size, margin, w)
    THEN DrawVariant(idx, text, scaled_font_size, x, text_align, sc, margin, w,
                     [base EXCEPT !.glyphs = RenderedGlyphs(text, me.firstVariant,
                                                            me.lastVariant)])
    ELSE IF HexToRgbRaises(color)
    THEN [ draws |-> <<>>, adj_id |-> "", entry |-> NoEntry,
           escaped |-> ExceptDraw("ValueError"),
           cur |-> [base EXCEPT !.path = "raised", !.raised = "ValueError"] ]
    ELSE IF me.position.isCircular
    THEN DrawCircular(map, idx, text,
                      GetPilFont(map, font_family, scaled_font_size),
                      scaled_font_size, me, original_text, sc, base)
    ELSE DrawLinear(map, idx, text, font_family, font_size, scaled_font_size,
                    x, rotation, text_align, me, sc, w, h, margin, base)

DrawFound(map, fs, sc, w, h, idx, text, font_family, font_size, x, color, rotation, text_align, original_text, variant_ok, match, me, scaled_font_size, margin) ==
    DrawElement(map, fs, sc, w, h, idx, text, font_family, font_size, x, color,
                rotation, text_align, original_text, variant_ok, me, scaled_font_size,
                margin, GetFontInfo(map, font_family),
                [CurBase(idx) EXCEPT !.match = match, !.element_id = me.id,
                                     !.font_path = GetFontInfo(map, font_family).path,
                                     !.margin = margin,
                                     !.scaled_font_size = scaled_font_size,
                                     !.final_font_size = scaled_font_size])

\* for element in self.text_elements: if element.get('value') == text: the
\* first element with that value supplies the id, the padding, the variants
\* and the position.
DrawMatched(elems, map, fs, sc, w, h, idx, text, font_family, font_size, x, color, rotation, text_align, original_text, variant_ok, match) ==
    DrawFound(map, fs, sc, w, h, idx, text, font_family, font_size, x, color,
              rotation, text_align, original_text, variant_ok, match, elems[match],
              IntMulScale(font_size, sc),
              MarginOf(elems[match].textPadding, sc))

\* _draw_text_with_pil(img, text, font_family, font_size, x, y, color,
\* rotation, text_align, vert_align, original_text).  The element is looked
\* up by its value; variant_ok says whether FreeType rendered the strip.
DrawTextWithPil(elems, map, fs, sc, w, h, idx, text, font_family, font_size, x, color, rotation, text_align, original_text, variant_ok) ==
    DrawMatched(elems, map, fs, sc, w, h, idx, text, font_family, font_size,
                x, color, rotation, text_align, original_text, variant_ok,
                FindElement(elems, original_text))

\* ------------------------------------------------------------ the request

BaseEl ==
    [ id |-> "e1", value |-> <<"a", "m">>, fontFamily |-> <<"Arial">>,
      fontSize |-> 16, color |-> "#000000", textPadding |-> Nothing,
      isUppercase |-> FALSE, firstVariant |-> Nothing, lastVariant |-> Nothing,
      position |->
        [ isDict |-> TRUE, x |-> 100, y |-> 100, rotation |-> 0,
          textAlign |-> "center", verticalAlign |-> "baseline",
          letterSpacing |-> 10, isCircular |-> FALSE, radius |-> 200,
          baseAngle |-> 270, maxAngle |-> [kind |-> "absent", v |-> 0],
          layoutMode |-> "centerAligned", baselinePosition |-> "inside" ] ]

Texts == { <<"a", "m">>, <<"M", "A", "M">>, <<"i", "a", "m", "a", "i">> }

FontSizes == { 5, 16, 43, 100 }

LinearEls ==
    { [BaseEl EXCEPT !.value = t, !.fontSize = s, !.textPadding = p,
                     !.position.rotation = r] :
        t \in Texts, s \in FontSizes,
        p \in { Nothing, Some(40), Some(2000) }, r \in { 0, 90 } }

\* Circular elements: each radius, maxAngle, baselinePosition, and layoutMode
\* with baseAngle.
CircularEls ==
    { [BaseEl EXCEPT !.id = "c1", !.value = t, !.fontSize = s,
                     !.position.isCircular = TRUE, !.position.radius = rr,
                     !.position.maxAngle = ma,
                     !.position.baselinePosition = bp,
                     !.position.layoutMode = lay.layoutMode,
                     !.position.baseAngle = lay.baseAngle] :
        t \in Texts, s \in FontSizes, rr \in { 0, 60, 150 },
        ma \in { [kind |-> "absent", v |-> 0], [kind |-> "number", v |-> 0],
                 [kind |-> "number", v |-> 10], [kind |-> "number", v |-> 35],
                 [kind |-> "number", v |-> 120], [kind |-> "number", v |-> -5],
                 [kind |-> "number", v |-> 400], [kind |-> "text", v |-> 0] },
        bp \in { "inside", "outside" },
        lay \in { [layoutMode |-> "centerAligned", baseAngle |-> 270],
                  [layoutMode |-> "startAligned", baseAngle |-> 270],
                  [layoutMode |-> "centerAligned", baseAngle |-> 30] } }

\* Linear elements that are drawn glyph by glyph; letterSpacing in tenths.
SpacedEls ==
    { [BaseEl EXCEPT !.id = "s1", !.value = t, !.fontSize = s,
                     !.position.letterSpacing = ls] :
        t \in Texts, s \in FontSizes, ls \in { 15, 20 } }

\* Linear elements at the left, in the middle and at the right of the
\* template, with each alignment.
PlacedEls ==
    { [BaseEl EXCEPT !.id = "p1", !.value = t, !.fontSize = s,
                     !.textPadding = pad, !.position.x = px,
                     !.position.textAlign = ta] :
        t \in { <<"a", "m">>, <<"M", "A", "M">> }, s \in { 16, 43 },
        pad \in { Nothing, Some(40) }, px \in { 0, 100, 195 },
        ta \in { "left", "center", "right" } }

\* Elements with glyph variants: the values, and the indexes of the first
\* and of the last character.
VariantEls ==
    { [BaseEl EXCEPT !.id = "v1", !.value = t, !.firstVariant = fv,
                     !.lastVariant = lv] :
        t \in { <<"a">>, <<"a", "m", "a">>, <<"a", "1">>, <<"1", "a">> },
        fv \in { Nothing, Some(1), Some(-1), Some(5) },
        lv \in { Nothing, Some(2), Some(5) } }

\* The elements of the longer requests: a plain one, one with the same value
\* and another id, an empty one, ones that fail, circular ones, one with a
\* variant, a linear one too wide for the canvas.
ListEls ==
    { BaseEl,
      [BaseEl EXCEPT !.id = "e2", !.fontSize = 100, !.textPadding = Some(40)],
      [BaseEl EXCEPT !.id = "e3", !.value = <<>>],
      [BaseEl EXCEPT !.id = "e4", !.value = <<"M", "A", "M">>, !.color = "#GGGGGG"],
      [BaseEl EXCEPT !.id = "e5", !.value = <<"i", "a", "m", "a", "i">>,
                     !.position.isDict = FALSE],
      [BaseEl EXCEPT !.id = "e6", !.value = <<"M", "A", "M">>, !.fontSize = 43,
                     !.position.isCircular = TRUE, !.position.radius = 0],
      [BaseEl EXCEPT !.id = "e7", !.value = <<"a">>, !.firstVariant = Some(1),
                     !.isUppercase = TRUE],
      [BaseEl EXCEPT !.id = "e8", !.value = <<"M", "A", "M">>, !.fontSize = 43,
                     !.fontFamily = <<"Foo">>,
                     !.position.isCircular = TRUE, !.position.radius = 60,
                     !.position.maxAngle = [kind |-> "number", v |-> 35]],
      [BaseEl EXCEPT !.id = "e9", !.value = <<"M", "A", "M", "M", "A", "M">>,
                     !.fontSize = 100] }

MaxElems == 2

RECURSIVE SeqsUpTo(_, _)
SeqsUpTo(S, n) ==
    IF n = 0 THEN { <<>> }
    ELSE LET shorter == SeqsUpTo(S, n - 1)
         IN  shorter \cup { Append(q, e) : q \in { x \in shorter : Len(x) = n - 1 }, e \in S }

Requests ==
    { <<e>> : e \in LinearEls \cup CircularEls \cup VariantEls \cup SpacedEls
                  \cup PlacedEls }
        \cup SeqsUpTo(ListEls, MaxElems)

\* The font mapping of the request and the font files on disk.
FontSetups ==
    { [ fontMapping |-> <<>>, files |-> {} ],
      [ fontMapping |-> <<>>,
        files |-> { "/usr/share/fonts/truetype/dejavu/DejaVuSans.ttf" } ],
      [ fontMapping |-> << [name |-> <<"Montserrat">>, path |-> "/fonts/Montserrat.ttf"],
                           [name |-> <<"Foo">>, path |-> "/does/not/exist"] >>,
        files |-> { "/System/Library/Fonts/Arial.ttf", "/fonts/Montserrat.ttf" } ] }

\* ------------------------------------------------------------ the program

InitWith(template, elems, setup) ==
    /\ pc = "new"
    /\ data = [ template |-> template, textElements |-> elems,
                fontMapping |-> setup.fontMapping ]
    /\ files = setup.files
    /\ scale_factor = [num |-> 1, den |-> 1]
    /\ width = 0
    /\ height = 0
    /\ font_map = <<>>
    /\ font_size_adjustments = <<>>
    /\ img = <<>>
    /\ k = 0
    /\ cur = CurBase(0)
    /\ result = [data |-> "", error |-> ""]

\* No variable face is in use: nothing is instanced.
\* No orders are processed.
NoResultYet == [success |-> FALSE, slides_created |-> 0, errors |-> <<>>, slides |-> <<>>]

NoOrders ==
    /\ basket_pc = "off"
    /\ orders_data = <<>>
    /\ prs = <<>>
    /\ order_index = 0
    /\ slides_created = 0
    /\ errors = <<>>
    /\ basket_result = NoResultYet

NoInstancing ==
    /\ disk = <<>>
    /\ gens = <<>>

Init ==
    /\ \E t \in { [width |-> 200, height |-> 200, backgroundImagePath |-> ""],
                  [width |-> 333, height |-> 333, backgroundImagePath |-> "bg.png"],
                  [width |-> 300, height |-> 200, backgroundImagePath |-> ""],
                  [width |-> 1200, height |-> 1000, backgroundImagePath |-> "bg.png"] },
          r \in Requests, f \in FontSetups : InitWith(t, r, f)
    /\ NoInstancing
    /\ NoOrders

\* A constructor that rounds the scaled side to the nearest integer.
ScaledSideRounded(side, w0, h0) ==
    IF Max(w0, h0) < target_resolution
    THEN RoundDiv(side * target_resolution, Max(w0, h0))
    ELSE side

\* self.width = int(width * self.scale_factor) when the canvas is scaled
ScaledSide(side, w0, h0) ==
    IF Max(w0, h0) < target_resolution
    THEN IntMulScale(side, ScaleOf(w0, h0))
    ELSE side

\* __init__
Construct ==
    /\ pc = "new"
    /\ scale_factor' = ScaleOf(data.template.width, data.template.height)
    /\ width' = ScaledSide(data.template.width, data.template.width, data.template.height)
    /\ height' = ScaledSide(data.template.height, data.template.width, data.template.height)
    /\ font_map' = BuildFontMap(data.fontMapping, files)
    /\ font_size_adjustments' = <<>>
    /\ pc' = "constructed"
    /\ UNCHANGED <<data, files, img, k, cur, result>>
    /\ UNCHANGED fontvars
    /\ UNCHANGED basketvars

\* generate, up to the loop: the transparent image and the background
GenerateStart ==
    /\ pc = "constructed"
    /\ img' = IF data.template.backgroundImagePath # ""
              THEN <<Event(0, "background", "")>>
              ELSE <<>>
    /\ k' = 1
    /\ pc' = "loop"
    /\ UNCHANGED <<data, files, scale_factor, width, height, font_map,
                   font_size_adjustments, cur, result>>
    /\ UNCHANGED fontvars
    /\ UNCHANGED basketvars

\* A loop that walks the list from its end.
LoopIndexReversed(len, n) == len + 1 - n

\* for element in self.text_elements: the element of the n-th iteration
LoopIndex(len, n) == n

\* A loop body without its handler: the exception goes on to generate's own.
ExceptElementMissing(exc) == exc

\* except Exception (line 1508): logged, the loop goes on.
ExceptElement(exc) == NoException

\* A loop body without the test for an empty value.
SkipsElementNever(element) == FALSE

\* if not text: continue
SkipsElement(element) == element.value = <<>>

\* What an exception that left the loop body does: nothing when the handler
\* of the loop swallowed it, else generate's outer handler returns the error.
AfterElement(escaped) ==
    IF escaped = NoException
    THEN k' = k + 1 /\ UNCHANGED <<pc, result>>
    ELSE /\ pc' = "done"
         /\ result' = [data |-> "None", error |-> "Error generating PNG"]
         /\ k' = k

\* The effect of self._draw_text_with_pil(...) on the image and the report.
Drawn(r) ==
    /\ cur' = r.cur
    /\ img' = img \o r.draws
    /\ font_size_adjustments' =
          IF r.adj_id # ""
          THEN PutEntry(font_size_adjustments, r.adj_id, r.entry)
          ELSE font_size_adjustments
    /\ AfterElement(ExceptElement(r.escaped))

\* The body of the loop for one element.
LoopBody(idx, element, variant_ok) ==
    IF SkipsElement(element)
    THEN /\ cur' = CurBase(idx)
         /\ k' = k + 1
         /\ UNCHANGED <<pc, img, font_size_adjustments, result>>
    ELSE IF ~element.position.isDict
    THEN /\ cur' = [CurBase(idx) EXCEPT !.path = "raised",
                                        !.raised = "AttributeError"]
         /\ AfterElement(ExceptElement("AttributeError"))
         /\ UNCHANGED <<img, font_size_adjustments>>
    ELSE Drawn(DrawTextWithPil(
                 data.textElements, font_map, files, scale_factor, width,
                 height, idx,
                 IF element.isUppercase THEN Upper(element.value)
                 ELSE element.value,
                 IF element.fontFamily = <<>> THEN <<"Arial">>
                 ELSE element.fontFamily,
                 IF element.fontSize = 0 THEN 16 ELSE element.fontSize,
                 element.position.x,
                 IF element.color = "" THEN "#000000" ELSE element.color,
                 element.position.rotation, element.position.textAlign,
                 element.value, variant_ok))

\* One iteration of generate's loop.
ProcessElement ==
    /\ pc = "loop"
    /\ k <= Len(data.textElements)
    /\ \E variant_ok \in BOOLEAN :
         LoopBody(LoopIndex(Len(data.textElements), k),
                  data.textElements[LoopIndex(Len(data.textElements), k)],
                  variant_ok)
    /\ UNCHANGED <<data, files, scale_factor, width, height, font_map>>
    /\ UNCHANGED fontvars
    /\ UNCHANGED basketvars

\* generate, after the loop: sharpen, save as PNG, return (data, None, adjustments)
Finish ==
    /\ pc = "loop"
    /\ k > Len(data.textElements)
    /\ result' = [data |-> "png", error |-> "None"]
    /\ pc' = "done"
    /\ UNCHANGED <<data, files, scale_factor, width, height, font_map,
                   font_size_adjustments, img, k, cur>>
    /\ UNCHANGED fontvars
    /\ UNCHANGED basketvars

Next == Construct \/ GenerateStart \/ ProcessElement \/ Finish

Spec == Init /\ [][Next]_vars

\* Construction alone, over every declared size of a range.
MaxSmallSide == 40

CanvasInit ==
    /\ \E w0, h0 \in (1..MaxSmallSide)
                       \cup { 200, 300, 333, 500, 999, 1000, 1001, 1500 } :
          InitWith([width |-> w0, height |-> h0, backgroundImagePath |-> ""], <<>>,
                   [fontMapping |-> <<>>, files |-> {}])
    /\ NoInstancing
    /\ NoOrders

CanvasNext == Construct

CanvasSpec == CanvasInit /\ [][CanvasNext]_vars

\* ------------------------------------- fonts with weights and variable faces

\* fontWeight of an element: absent, a string or a number.
NoWeight == [kind |-> "none", s |-> "", n |-> 0]

StrWeight(s) == [kind |-> "str", s |-> s, n |-> 0]

NumWeight(n) == [kind |-> "num", s |-> "", n |-> n]

\* if font_weight: None, '' and 0 are false
WeightGiven(w) == (w.kind = "str" /\ w.s # "") \/ (w.kind = "num" /\ w.n # 0)

\* wght_value of lines 549-573 for a string weight (given in lower case)
WghtOfString(s) ==
    CASE s = "bold" -> 700
      [] s = "medium" -> 500
      [] s = "semibold" -> 600
      [] s = "light" -> 300
      [] s \in {"thin", "hairline"} -> 100
      [] s = "black" -> 900
      [] s = "extrabold" -> 800
      [] s = "extralight" -> 200
      [] s = "700" -> 700
      [] OTHER -> 400

\* weight_name_map (lines 589-610); "" when the key is not in the map
WeightNameMap(key) ==
    CASE key \in {"thin", "100"} -> "Thin"
      [] key = "hairline" -> "Hairline"
      [] key \in {"extralight", "200"} -> "ExtraLight"
      [] key \in {"light", "300"} -> "Light"
      [] key \in {"regular", "normal", "400"} -> "Regular"
      [] key \in {"medium", "500"} -> "Medium"
      [] key \in {"semibold", "600"} -> "SemiBold"
      [] key \in {"bold", "700"} -> "Bold"
      [] key \in {"extrabold", "800"} -> "ExtraBold"
      [] key \in {"black", "900"} -> "Black"
      [] OTHER -> ""

\* weight_name of lines 613-629: a string is looked up as it is, a number
\* as str(int(weight_num / 100) * 100)
WeightName(w) ==
    IF w.kind = "str" THEN WeightNameMap(w.s)
    ELSE IF w.kind = "num" THEN WeightNameMap(ToString((w.n \div 100) * 100))
    ELSE ""

\* variable_settings of lines 455-457 and 547-581, as the items of the dict
\* in insertion order
VariableSettings(explicit, w) ==
    IF explicit # <<>> THEN explicit
    ELSE IF WeightGiven(w)
    THEN << <<"wght", IF w.kind = "str" THEN WghtOfString(w.s) ELSE w.n>> >>
    ELSE << <<"wght", 400>> >>

\* A resolution that never looks for a weighted name.
ExactFontFamilyUnweighted(map, font_family, w) == font_family

\* exact_font_family of lines 583-637: family-WeightName whenever a weight
\* is given, the family holds no '-' and the map holds that name
ExactFontFamily(map, font_family, w) ==
    IF /\ WeightGiven(w)
       /\ Len(font_family) = 1
       /\ WeightName(w) # ""
       /\ \E i \in 1..Len(map) : map[i].name = Append(font_family, WeightName(w))
    THEN Append(font_family, WeightName(w))
    ELSE font_family

\* The faces whose file holds an fvar table (_analyze_font).
VariableFaces == { "/fonts/Inter.ttf" }

IsVariableFont(path) == path \in VariableFaces

\* os.path.splitext(os.path.basename(font_path))[0]
Basename(font_path) ==
    CASE font_path = "/fonts/Inter.ttf" -> "Inter"
      [] font_path = "/fonts/Montserrat.ttf" -> "Montserrat"
      [] OTHER -> font_path

\* ''.join(f'{tag}{val}' for tag, val in axis_values.items())
RECURSIVE AxisString(_)
AxisString(axis_values) ==
    IF axis_values = <<>> THEN ""
    ELSE axis_values[1][1] \o ToString(axis_values[1][2])
             \o AxisString(Tail(axis_values))

\* output_path of _create_instance_of_variable_font
InstancePath(font_path, axis_values) ==
    "uploads/temp_fonts/" \o Basename(font_path) \o "-"
        \o AxisString(axis_values) \o ".ttf"

\* The name _register_temp_font gives the instance: its file name without
\* the extension, here in its parts between '-' characters.
InstanceName(font_path, axis_values) ==
    << Basename(font_path), AxisString(axis_values) >>

\* A registration that replaces the whole map by the instance.
RegisterTempFontAlone(map, name, font_path) == << [name |-> name, path |-> font_path] >>

\* _register_temp_font: a name the map holds already is left alone, a new
\* one is added to self.font_map.
RegisterTempFont(map, name, font_path) ==
    IF \E i \in 1..Len(map) : map[i].name = name THEN map
    ELSE Append(map, [name |-> name, path |-> font_path])

\* os.path.exists for a font file or an instance file
Exists(fs, dk, path) ==
    \/ path \in fs
    \/ path \in DOMAIN dk /\ dk[path] # "absent"

\* The fallback of _get_pil_font: the first system font that exists, else
\* ImageFont.load_default().
SystemFont(fs, font_size) ==
    LET d == FirstIndex([i \in 1..Len(default_fonts) |-> default_fonts[i] \in fs])
    IN  IF d = 0 THEN load_default
        ELSE [path |-> default_fonts[d], size |-> font_size, default |-> FALSE]

\* A handler of the failed instancing that gives up the family.
FaceWithoutInstanceSystem(fs, font_path, font_size) == SystemFont(fs, font_size)

\* temp_font_path is None: font = ImageFont.truetype(font_path, int(font_size))
FaceWithoutInstance(fs, font_path, font_size) ==
    [path |-> font_path, size |-> font_size, default |-> FALSE]

\* draw.text((place_x, place_y), text, font=font, fill=rgb_color): the run is
\* drawn without a stroke_width, which is a stroke of 0 pixels.
DrawnStrokeWidth == 0

\* self.font_cache, keyed by (font_family, font_size, str(variable_settings))
CacheHits(cache, family, font_size, settings) ==
    { c \in cache : c.family = family /\ c.size = font_size /\ c.settings = settings }

NoFace == [path |-> "", size |-> 0, default |-> FALSE]

\* A generator after __init__, before it resolved any font.
NewGenerator(map) ==
    [ pc |-> "idle", map |-> map, cache |-> {}, calls |-> 0,
      req |-> [ fontFamily |-> <<>>, fontSize |-> 0, fontWeight |-> NoWeight,
               variableFontSettings |-> <<>>, autoBold |-> FALSE ],
      family |-> <<>>, settings |-> <<>>,
      face |-> "", inst |-> "", font |-> NoFace, failed |-> FALSE,
      loaded |-> "", hist |-> <<>> ]

\* return font, after self.font_cache[cache_key] = font
Returned(g, font, failed) ==
    [ g EXCEPT !.pc = "idle", !.font = font, !.failed = failed,
               !.cache = g.cache \cup { [ family |-> g.family,
                                          size |-> g.req.fontSize,
                                          settings |-> g.settings,
                                          font |-> font ] } ]

\* What _create_instance_of_variable_font returned ("" is None) and whether
\* it wrote the file.
Instanced(g, ret, wrote) ==
    [ g EXCEPT !.hist = Append(g.hist, [ face |-> g.face, axes |-> g.settings,
                                         ret |-> ret, wrote |-> wrote ]) ]

\* _get_pil_font from the lookup of the face to the call of
\* _create_instance_of_variable_font
GetPilFontInfo(g, info, fs, dk) ==
    IF info = NoFont THEN Returned(g, load_default, FALSE)
    ELSE IF ~Exists(fs, dk, info.path)
    THEN Returned([g EXCEPT !.face = info.path],
                  SystemFont(fs, g.req.fontSize), FALSE)
    ELSE IF IsVariableFont(info.path) /\ g.settings # <<>>
    THEN [ g EXCEPT !.pc = "exists", !.face = info.path,
                    !.inst = InstancePath(info.path, g.settings) ]
    ELSE Returned([g EXCEPT !.face = info.path],
                  [path |-> info.path, size |-> g.req.fontSize,
                   default |-> FALSE], FALSE)

\* _get_pil_font(exact_font_family, scaled_font_size, variable_settings),
\* from the cache or from the font map
GetPilFontStart(g, fs, dk) ==
    LET hits == CacheHits(g.cache, g.family, g.req.fontSize, g.settings)
    IN  IF hits # {}
        THEN [ g EXCEPT !.font = (CHOOSE c \in hits : TRUE).font,
                        !.failed = FALSE ]
        ELSE GetPilFontInfo(g, GetFontInfo(g.map, g.family), fs, dk)

\* The elements whose fonts are resolved: a family with a static face for
\* each weight, and a variable face asked for by weight or by axis values;
\* autoBold is a key of the element that no line of the generator reads.
FontRequests ==
    { [ fontFamily |-> <<"Montserrat">>, fontSize |-> 20,
        fontWeight |-> StrWeight("bold"), variableFontSettings |-> <<>>,
        autoBold |-> FALSE ],
      [ fontFamily |-> <<"Montserrat">>, fontSize |-> 20,
        fontWeight |-> NoWeight, variableFontSettings |-> <<>>,
        autoBold |-> FALSE ],
      [ fontFamily |-> <<"Inter">>, fontSize |-> 20,
        fontWeight |-> NumWeight(700), variableFontSettings |-> <<>>,
        autoBold |-> FALSE ],
      [ fontFamily |-> <<"Inter">>, fontSize |-> 20,
        fontWeight |-> StrWeight("bold"), variableFontSettings |-> <<>>,
        autoBold |-> FALSE ],
      [ fontFamily |-> <<"Inter">>, fontSize |-> 30,
        fontWeight |-> NumWeight(700), variableFontSettings |-> <<>>,
        autoBold |-> FALSE ],
      [ fontFamily |-> <<"Inter">>, fontSize |-> 20, fontWeight |-> NoWeight,
        variableFontSettings |-> << <<"wght", 700>>, <<"wdth", 80>> >>,
        autoBold |-> FALSE ],
      [ fontFamily |-> <<"Inter">>, fontSize |-> 20, fontWeight |-> NoWeight,
        variableFontSettings |-> << <<"wdth", 80>>, <<"wght", 700>> >>,
        autoBold |-> FALSE ],
      [ fontFamily |-> <<"Inter">>, fontSize |-> 20, fontWeight |-> NoWeight,
        variableFontSettings |-> <<>>, autoBold |-> TRUE ],
      [ fontFamily |-> <<"Montserrat">>, fontSize |-> 80, fontWeight |-> NoWeight,
        variableFontSettings |-> <<>>, autoBold |-> TRUE ],
      [ fontFamily |-> <<"inter", "Bold">>, fontSize |-> 20,
        fontWeight |-> NoWeight, variableFontSettings |-> <<>>,
        autoBold |-> FALSE ] }

FontRegistry ==
    [ fontMapping |-> << [name |-> <<"Montserrat">>, path |-> "/fonts/Montserrat.ttf"],
                         [name |-> <<"Montserrat", "Bold">>,
                          path |-> "/fonts/Montserrat-Bold.ttf"],
                         [name |-> <<"Inter">>, path |-> "/fonts/Inter.ttf"] >>,
      files |-> { "/usr/share/fonts/truetype/dejavu/DejaVuSans.ttf",
                  "/fonts/Montserrat.ttf", "/fonts/Montserrat-Bold.ttf",
                  "/fonts/Inter.ttf" } ]

\* Two requests are rendered at a time, each by a process of its own.
Generators == { 1, 2 }

\* The font resolutions of a run, over both generators.
MaxCalls == 2


FontInit ==
    /\ InitWith([width |-> 200, height |-> 200, backgroundImagePath |-> ""],
                <<>>, FontRegistry)
    /\ disk = [p \in { InstancePath(f, VariableSettings(r.variableFontSettings,
                                                        r.fontWeight)) :
                        f \in VariableFaces, r \in FontRequests } |-> "absent"]
    /\ gens = [p \in Generators |->
                 NewGenerator(BuildFontMap(FontRegistry.fontMapping,
                                           FontRegistry.files))]
    /\ NoOrders

\* Lines 452-458 and 547-639 for one element: the variable settings, the
\* exact family, and the start of _get_pil_font.  (ImageFont objects compare
\* by identity, so the test of line 642 against a new load_default() never
\* holds and the call of line 644 is never made.)
ResolveElement(g, r, fs, dk) ==
    GetPilFontStart(
        [ g EXCEPT !.calls = g.calls + 1, !.req = r,
                   !.family = ExactFontFamily(g.map, r.fontFamily, r.fontWeight),
                   !.settings = VariableSettings(r.variableFontSettings,
                                                 r.fontWeight),
                   !.face = "", !.inst = "", !.font = NoFace,
                   !.failed = FALSE, !.loaded = "" ],
        fs, dk)

ResolveFont(p) ==
    /\ gens[p].pc = "idle"
    /\ gens[1].calls + gens[2].calls < MaxCalls
    /\ \E r \in FontRequests :
         gens' = [gens EXCEPT ![p] = ResolveElement(gens[p], r, files, disk)]
    /\ UNCHANGED disk
    /\ UNCHANGED mainvars
    /\ UNCHANGED basketvars

\* if os.path.exists(output_path): register, return output_path
InstanceExists(p) ==
    /\ gens[p].pc = "exists"
    /\ gens' = [gens EXCEPT ![p] =
          IF disk[gens[p].inst] # "absent"
          THEN Instanced([ gens[p] EXCEPT
                             !.pc = "load",
                             !.map = RegisterTempFont(
                                         gens[p].map,
                                         InstanceName(gens[p].face, gens[p].settings),
                                         gens[p].inst) ],
                         gens[p].inst, FALSE)
          ELSE [ gens[p] EXCEPT !.pc = "instantiate" ]]
    /\ UNCHANGED disk
    /\ UNCHANGED mainvars
    /\ UNCHANGED basketvars

\* TTFont(font_path), instancer.instantiateVariableFont(font, axis_values),
\* and the start of instance_font.save(output_path): the file is opened for
\* writing under its final name, empty.
InstantiateVariableFont(p) ==
    /\ gens[p].pc = "instantiate"
    /\ disk' = [disk EXCEPT ![gens[p].inst] = "partial"]
    /\ gens' = [gens EXCEPT ![p].pc = "save"]
    /\ UNCHANGED mainvars
    /\ UNCHANGED basketvars

\* The instancer raises: except Exception: return None.
InstantiateRaises(p) ==
    /\ gens[p].pc = "instantiate"
    /\ gens' = [gens EXCEPT ![p] =
          Returned(Instanced(gens[p], "", FALSE),
                   FaceWithoutInstance(files, gens[p].face, gens[p].req.fontSize),
                   TRUE)]
    /\ UNCHANGED disk
    /\ UNCHANGED mainvars
    /\ UNCHANGED basketvars

\* instance_font.save(output_path) wrote the whole file; the instance is
\* registered and its path returned.
SaveInstance(p) ==
    /\ gens[p].pc = "save"
    /\ disk' = [disk EXCEPT ![gens[p].inst] = "complete"]
    /\ gens' = [gens EXCEPT ![p] =
          Instanced([ gens[p] EXCEPT
                        !.pc = "load",
                        !.map = RegisterTempFont(
                                    gens[p].map,
                                    InstanceName(gens[p].face, gens[p].settings),
                                    gens[p].inst) ],
                    gens[p].inst, TRUE)]
    /\ UNCHANGED mainvars
    /\ UNCHANGED basketvars

\* The write raises (the disk is full): except Exception: return None.  The
\* file stays as far as it was written.
SaveRaises(p) ==
    /\ gens[p].pc = "save"
    /\ gens' = [gens EXCEPT ![p] =
          Returned(Instanced(gens[p], "", TRUE),
                   FaceWithoutInstance(files, gens[p].face, gens[p].req.fontSize),
                   TRUE)]
    /\ UNCHANGED disk
    /\ UNCHANGED mainvars
    /\ UNCHANGED basketvars

\* font = ImageFont.truetype(temp_font_path, int(font_size)); a file that is
\* not whole raises, and the handler of line 310 takes a system font.
LoadInstance(p) ==
    /\ gens[p].pc = "load"
    /\ gens' = [gens EXCEPT ![p] =
          Returned([ gens[p] EXCEPT !.loaded =
                       IF disk[gens[p].inst] = "complete" THEN "whole"
                       ELSE IF \E q \in Generators \ {p} :
                                   /\ gens[q].pc = "save"
                                   /\ gens[q].inst = gens[p].inst
                       THEN "being written"
                       ELSE "broken" ],
                   IF disk[gens[p].inst] = "complete"
                   THEN [path |-> gens[p].inst, size |-> gens[p].req.fontSize,
                         default |-> FALSE]
                   ELSE SystemFont(files, gens[p].req.fontSize),
                   FALSE)]
    /\ UNCHANGED disk
    /\ UNCHANGED mainvars
    /\ UNCHANGED basketvars

FontNext ==
    \E p \in Generators :
        \/ ResolveFont(p)
        \/ InstanceExists(p)
        \/ InstantiateVariableFont(p)
        \/ InstantiateRaises(p)
        \/ SaveInstance(p)
        \/ SaveRaises(p)
        \/ LoadInstance(p)

FontSpec == FontInit /\ [][FontNext]_vars

\* ------------------------------------------- the basket order generator

\* An order of the list: a dict with its keys, or a value that is no dict
\* (null, a string).  quantity is a number, a string or absent.
Order(isDict, customName, quantity) ==
    [isDict |-> isDict, customName |-> customName, quantity |-> quantity]

NoQuantity == [kind |-> "absent", v |-> 0]

OrderPool ==
    { Order(TRUE, "Ann", NoQuantity),
      Order(TRUE, "Bob", [kind |-> "number", v |-> 2]),
      Order(FALSE, "", NoQuantity),
      Order(TRUE, "Cy", [kind |-> "string", v |-> 2]) }

\* The orders of one call.
MaxOrders == 3

\* What create_basket_order_slide raises after the slide was added:
\* order_data.get of line 50 on a value that is no dict, and the comparison
\* of line 161 of a string with 1.
SlideRaises(order_data) ==
    IF ~order_data.isDict THEN "AttributeError"
    ELSE IF order_data.quantity.kind = "string" THEN "TypeError"
    ELSE NoException

\* A slide of the presentation: the order it was added for (from 1) and
\* whether all its text boxes were filled.
Slide(order, filled) == [order |-> order, filled |-> filled]

BasketInit ==
    /\ InitWith([width |-> 200, height |-> 200, backgroundImagePath |-> ""],
                <<>>, [fontMapping |-> <<>>, files |-> {}])
    /\ NoInstancing
    /\ basket_pc = "new"
    /\ orders_data \in SeqsUpTo(OrderPool, MaxOrders)
    /\ prs = <<>>
    /\ order_index = 0
    /\ slides_created = 0
    /\ errors = <<>>
    /\ basket_result = NoResultYet

\* prs = Presentation(); slides_created = 0; errors = []
NewPresentation ==
    /\ basket_pc = "new"
    /\ basket_pc' = "slide"
    /\ UNCHANGED <<orders_data, prs, order_index, slides_created, errors,
                   basket_result>>
    /\ UNCHANGED mainvars
    /\ UNCHANGED fontvars

\* create_basket_order_slide, lines 29-30: prs.slides.add_slide(slide_layout)
AddSlide ==
    /\ basket_pc = "slide"
    /\ order_index < Len(orders_data)
    /\ prs' = Append(prs, Slide(order_index + 1, FALSE))
    /\ basket_pc' = "fill"
    /\ UNCHANGED <<orders_data, order_index, slides_created, errors,
                   basket_result>>
    /\ UNCHANGED mainvars
    /\ UNCHANGED fontvars

\* create_basket_order_slide, lines 32-175, and slides_created += 1
FillSlide ==
    /\ basket_pc = "fill"
    /\ SlideRaises(orders_data[order_index + 1]) = NoException
    /\ prs' = [prs EXCEPT ![Len(prs)].filled = TRUE]
    /\ slides_created' = slides_created + 1
    /\ order_index' = order_index + 1
    /\ basket_pc' = "slide"
    /\ UNCHANGED <<orders_data, errors, basket_result>>
    /\ UNCHANGED mainvars
    /\ UNCHANGED fontvars

\* create_basket_order_slide raises while it fills the slide:
\* except Exception as e: errors.append(...)
FillRaises ==
    /\ basket_pc = "fill"
    /\ SlideRaises(orders_data[order_index + 1]) # NoException
    /\ errors' = Append(errors, [order |-> order_index + 1,
                                 what |-> SlideRaises(orders_data[order_index + 1])])
    /\ order_index' = order_index + 1
    /\ basket_pc' = "slide"
    /\ UNCHANGED <<orders_data, prs, slides_created, basket_result>>
    /\ UNCHANGED mainvars
    /\ UNCHANGED fontvars

\* prs.save(output_path), the file read back, and the result of lines
\* 207-213; slides is what the saved file holds.
SavePresentation ==
    /\ basket_pc = "slide"
    /\ order_index = Len(orders_data)
    /\ basket_result' = [ success |-> TRUE, slides_created |-> slides_created,
                          errors |-> errors, slides |-> prs ]
    /\ basket_pc' = "done"
    /\ UNCHANGED <<orders_data, prs, order_index, slides_created, errors>>
    /\ UNCHANGED mainvars
    /\ UNCHANGED fontvars

\* The save, the read or the unlink raises: the handler of line 215.
SaveFails ==
    /\ basket_pc = "slide"
    /\ order_index = Len(orders_data)
    /\ basket_result' = [ success |-> FALSE, slides_created |-> 0,
                          errors |-> <<>>, slides |-> <<>> ]
    /\ basket_pc' = "done"
    /\ UNCHANGED <<orders_data, prs, order_index, slides_created, errors>>
    /\ UNCHANGED mainvars
    /\ UNCHANGED fontvars

BasketNext ==
    \/ NewPresentation
    \/ AddSlide
    \/ FillSlide
    \/ FillRaises
    \/ SavePresentation
    \/ SaveFails

BasketSpec == BasketInit /\ [][BasketNext]_vars

\* ------------------------------------------------------------- the claims

\* The element the loop handled last, once an element was handled.
Handled == pc \in {"loop", "done"} /\ k > 1 /\ cur.idx > 0

\* C1: for every linear element, after the fit step the width of the text
\* measured at the final font size is at most the available width (the canvas
\* width, or the height for a near-vertical rotation, less both margins).
C1_LinearFitsWidth ==
    (Handled /\ cur.path = "linear") => cur.text_width <= cur.avail

\* C2: for every circular element whose effective max_angle is above 0, the
\* total arc angle of the text at the font size used for placement is at
\* most max_angle.
C2_CircularFitsAngle ==
    (Handled /\ cur.path = "circular" /\ cur.raised = NoException
             /\ cur.max_angle_limit > 0)
    => \/ cur.total_angle < cur.max_angle_limit * MicroDeg
       \/ /\ cur.total_angle = cur.max_angle_limit * MicroDeg
          /\ cur.total_angle_rem = 0

\* C3: every entry stored in the font-size adjustment report, by the linear
\* or by the circular path, has a finalSize of at least 8.
C3_FinalSizeFloor ==
    \A id \in DOMAIN font_size_adjustments :
        font_size_adjustments[id].finalSize >= MinFontSize

\* C4: the fit of one element never increases the font size: the size the
\* element is rendered with is at most the size the fit started from.
C4_FitNeverGrows ==
    (Handled /\ cur.path \in {"linear", "circular"}
             /\ cur.raised = NoException)
    => cur.final_font_size <= cur.scaled_font_size

\* What the lookup of the element supplies to the renderer.
Supplied(e) ==
    <<e.id, e.textPadding, e.firstVariant, e.lastVariant, e.position>>

\* C5: the element handled by an iteration of the loop is rendered with its
\* own attributes, and the entry written while it is processed is keyed by
\* its own id, also when another element of the list has the same value.
C5_OwnAttributesOwnId ==
    (Handled /\ cur.path \in {"linear", "circular", "variant"})
    => /\ Supplied(data.textElements[cur.match])
            = Supplied(data.textElements[cur.idx])
       /\ cur.wrote # "" => cur.wrote = data.textElements[cur.idx].id

\* An element of the request whose processing raises.
Fails(e) ==
    \/ ~e.position.isDict
    \/ HexToRgbRaises(e.color)
    \/ e.position.isCircular /\ e.position.radius = 0

DrawsOf(idx) == { p \in 1..Len(img) : img[p].elem = idx }

\* C6: no failure of one element aborts the image: whatever was raised while
\* an element was processed, every element of the list has had its iteration
\* and generate returns the image bytes with error None.
C6_NoElementAbortsImage ==
    pc = "done" => /\ result = [data |-> "png", error |-> "None"]
                   /\ k = Len(data.textElements) + 1

\* A finished request whose first element failed and whose second was drawn.
C6_Witness ==
    /\ pc = "done"
    /\ Len(data.textElements) = 2
    /\ Fails(data.textElements[1])
    /\ ~Fails(data.textElements[2])
    /\ DrawsOf(2) # {}
    /\ result.error = "None"

\* C7: the elements are drawn in input order, after the background: every
\* draw of an element comes before every draw of a later element, and the
\* background comes before all of them.
C7_DrawnInInputOrder ==
    \A p, q \in 1..Len(img) :
        p < q => img[p].elem <= img[q].elem /\ img[q].elem > 0

\* A finished image with a background and draws of two elements.
C7_Witness ==
    /\ pc = "done"
    /\ DrawsOf(0) # {}
    /\ DrawsOf(1) # {}
    /\ DrawsOf(2) # {}

\* C8: the iteration of an element whose value is empty draws nothing,
\* leaves the font-size adjustment report as it was, and the loop goes on
\* to the next element.
C8_EmptyValueSkipped ==
    [][ ( /\ pc = "loop"
          /\ k <= Len(data.textElements)
          /\ data.textElements[k].value = <<>> )
        => ( /\ img' = img
             /\ font_size_adjustments' = font_size_adjustments
             /\ pc' = "loop"
             /\ k' = k + 1 ) ]_vars

\* A finished request whose first element was empty and whose second was drawn.
C8_Witness ==
    /\ pc = "done"
    /\ Len(data.textElements) = 2
    /\ data.textElements[1].value = <<>>
    /\ DrawsOf(1) = {}
    /\ DrawsOf(2) # {}

\* The longest declared side.
DeclaredMax == Max(data.template.width, data.template.height)

\* C9: after construction the scale factor is max(1.0, 1000 / max(W0, H0)):
\* at least 1, exactly 1 when the longest declared side is 1000 or more, and
\* when it is above 1 the longest side of the scaled canvas is 1000 or more.
C9_ScaleFactor ==
    pc = "constructed" =>
        /\ IF DeclaredMax < target_resolution
           THEN scale_factor.num * DeclaredMax
                    = scale_factor.den * target_resolution
           ELSE scale_factor.num = scale_factor.den
        /\ scale_factor.num >= scale_factor.den
        /\ scale_factor.num > scale_factor.den
               => Max(width, height) >= target_resolution

\* side is the integer nearest to side0 * scale_factor.
NearestScaled(side, side0) ==
    /\ 2 * (side * scale_factor.den - side0 * scale_factor.num) <= scale_factor.den
    /\ 2 * (side0 * scale_factor.num - side * scale_factor.den) <= scale_factor.den

TruncatedScaled(side, side0) ==
    /\ side * scale_factor.den <= side0 * scale_factor.num
    /\ side0 * scale_factor.num <= (side + 1) * scale_factor.den

PathNamed(map, name) ==
    LET i == FirstIndex([j \in 1..Len(map) |-> map[j].name = name])
    IN  IF i = 0 THEN "" ELSE map[i].path

\* The name family-WeightName of a request, <<>> when its weight gives none.
WeightedName(r) ==
    IF WeightGiven(r.fontWeight) /\ Len(r.fontFamily) = 1
       /\ WeightName(r.fontWeight) # ""
    THEN Append(r.fontFamily, WeightName(r.fontWeight))
    ELSE <<>>

FamilyAsked(e) == IF e.fontFamily = <<>> THEN <<"Arial">> ELSE e.fontFamily

\* The fontMapping of the request names that family with a file that does
\* not exist.
MappedToMissingFile(family) ==
    \E i \in 1..Len(data.fontMapping) :
        /\ data.fontMapping[i].name = family
        /\ data.fontMapping[i].path \notin files

\* The face _get_font_info falls back to: 'Arial', else the first entry.
DefaultFacePath(map) ==
    IF PathNamed(map, <<"Arial">>) # "" THEN PathNamed(map, <<"Arial">>)
    ELSE map[1].path

C12_WitnessEmpty ==
    /\ pc = "done"
    /\ font_map = <<>>
    /\ cur.path = "nofont"
    /\ result.data = "png"

\* C13: no step taken while fonts are resolved adds, removes or changes an
\* entry of a generator's font map.
C13_RegistryImmutable ==
    [][\A p \in DOMAIN gens : gens'[p].map = gens[p].map]_vars

\* Two dicts of axis values are equal when they hold the same items.
SameAxisValues(a, b) ==
    { a[i] : i \in 1..Len(a) } = { b[i] : i \in 1..Len(b) }

\* The instance files that exist.
InstanceFiles == { f \in DOMAIN disk : disk[f] # "absent" }

\* C14: in a generator that runs alone, of two calls of
\* _create_instance_of_variable_font with the same face and the same axis
\* values, the first of which returned a path, the second returns the same
\* path and writes no file; and when every call asked for weight 700 and one
\* of them returned a path, exactly one instance file exists, named wght700.
C14_InstanceCacheIdempotent ==
    \A p \in DOMAIN gens :
        (\A q \in DOMAIN gens \ {p} : gens[q].calls = 0) =>
            /\ \A i, j \in 1..Len(gens[p].hist) :
                  ( /\ i < j
                    /\ gens[p].hist[i].face = gens[p].hist[j].face
                    /\ SameAxisValues(gens[p].hist[i].axes, gens[p].hist[j].axes)
                    /\ gens[p].hist[i].ret # "" )
                  => /\ gens[p].hist[j].ret = gens[p].hist[i].ret
                     /\ ~gens[p].hist[j].wrote
            /\ ( /\ gens[p].pc = "idle"
                 /\ \A i \in 1..Len(gens[p].hist) :
                        gens[p].hist[i].axes = << <<"wght", 700>> >>
                 /\ \E i \in 1..Len(gens[p].hist) : gens[p].hist[i].ret # "" )
               => InstanceFiles = { "uploads/temp_fonts/Inter-wght700.ttf" }

\* C15: no generator finds the instance file under its final name and loads
\* it while another generator is still writing it.
C15_InstanceLoadedWhole ==
    \A p \in DOMAIN gens : gens[p].loaded # "being written"

EffectiveMaxAngle(maxAngle) ==
    IF maxAngle.kind # "number" THEN 360
    ELSE IF maxAngle.v < 0 THEN 0
    ELSE IF maxAngle.v > 360 THEN 360
    ELSE maxAngle.v

\* C17: the limit the circular path works with is the declared maxAngle
\* clamped to [0, 360], or 360 when maxAngle is absent or not numeric; when
\* that limit is 0 the text is not shrunk: it is drawn at the scaled font size
\* and no adjustment entry is written for it.
C17_MaxAngleClamped ==
    (Handled /\ cur.path = "circular" /\ cur.raised = NoException) =>
        /\ cur.max_angle_limit =
              EffectiveMaxAngle(data.textElements[cur.match].position.maxAngle)
        /\ cur.max_angle_limit = 0 =>
              /\ ~cur.shrunk
              /\ cur.final_font_size = cur.scaled_font_size
              /\ cur.wrote = ""

\* A circular element with maxAngle -5 was drawn, unshrunk, on an arc wider
\* than its limit of 0.
C17_Witness ==
    /\ Handled
    /\ cur.path = "circular"
    /\ cur.raised = NoException
    /\ data.textElements[cur.match].position.maxAngle = [kind |-> "number", v |-> -5]
    /\ cur.max_angle_limit = 0
    /\ cur.total_angle > 0
    /\ cur.final_font_size = cur.scaled_font_size
    /\ cur.wrote = ""

\* The text generate passes for the element.
TextAsked(e) == IF e.isUppercase THEN Upper(e.value) ELSE e.value

\* What was drawn for the element handled last, in the order of drawing.
DrawnForCur == SelectSeq(img, LAMBDA ev : ev.elem = cur.idx)

\* The total angle of the text of the element handled last when it is laid
\* out in its own order, as for baseline_position = inside.
InsideAngleOfCur ==
    CircularFit(font_map,
                GetPilFont(font_map, FamilyAsked(data.textElements[cur.idx]),
                           cur.scaled_font_size),
                cur.scaled_font_size,
                TextAsked(data.textElements[cur.idx]),
                data.textElements[cur.match].position,
                scale_factor).total_angle

\* C18: for a circular element with baseline_position = outside, counting
\* from 0, the i-th glyph placed is character n-1-i of the text; the total
\* arc angle is the one of the same text laid out inside; and the element is
\* looked up, and its entry keyed, through its original, unreversed value.
C18_OutsideReversed ==
    ( /\ Handled
      /\ cur.path = "circular"
      /\ cur.raised = NoException
      /\ data.textElements[cur.match].position.baselinePosition = "outside" )
    => /\ Len(DrawnForCur) = Len(TextAsked(data.textElements[cur.idx]))
       /\ \A i \in 0..(Len(DrawnForCur) - 1) :
             DrawnForCur[i + 1].ch =
                 TextAsked(data.textElements[cur.idx])[(Len(DrawnForCur) - 1 - i) + 1]
       /\ cur.total_angle = InsideAngleOfCur
       /\ data.textElements[cur.match].value = data.textElements[cur.idx].value
       /\ cur.wrote # "" =>
             /\ cur.wrote = data.textElements[cur.match].id
             /\ cur.wrote \in DOMAIN font_size_adjustments

\* The text "am" was drawn outside as "m", "a", shrunk to fit its angle, and
\* its entry written under the element's id.
C18_Witness ==
    /\ Handled
    /\ cur.path = "circular"
    /\ data.textElements[cur.idx].position.baselinePosition = "outside"
    /\ data.textElements[cur.idx].value = <<"a", "m">>
    /\ Len(DrawnForCur) = 2
    /\ DrawnForCur[1].ch = "m"
    /\ DrawnForCur[2].ch = "a"
    /\ cur.shrunk
    /\ cur.wrote = "c1"

AlignedLeftEdge(e, text_width) ==
    2 * e.position.x * scale_factor.num
        - ( IF e.position.textAlign = "center" THEN text_width * scale_factor.den
            ELSE IF e.position.textAlign = "right"
            THEN 2 * text_width * scale_factor.den
            ELSE 0 )

\* The left edge is where the rule puts it, to the pixel, or it is where the
\* linear path moves a text that would leave the margins.
PlacedAsLinear(e, place_x, text_width, margin) ==
    \/ /\ 2 * scale_factor.den * (place_x - 1) <= AlignedLeftEdge(e, text_width)
       /\ AlignedLeftEdge(e, text_width) <= 2 * scale_factor.den * (place_x + 1)
    \/ /\ place_x = margin
       /\ AlignedLeftEdge(e, text_width) < 2 * scale_factor.den * margin
    \/ /\ place_x = Max(margin, width - text_width - margin)
       /\ AlignedLeftEdge(e, text_width)
              > 2 * scale_factor.den * (width - margin - text_width)

\* C20: a strip rendered with variants is placed from the element's x by the
\* alignment rule of the linear path, its width after the scaling of the
\* bitmap is at most the canvas width less both margins, and no adjustment
\* entry is written for it.
C20_VariantPlacedAsLinear ==
    (Handled /\ cur.path = "variant") =>
        /\ PlacedAsLinear(data.textElements[cur.idx], cur.place_x,
                          cur.text_width, cur.margin)
        /\ cur.text_width <= width - 2 * cur.margin
        /\ cur.wrote = ""

\* The value of the wght axis in a list of axis values, 0 when it has none.
WghtOf(axis_values) ==
    LET hits == { i \in 1..Len(axis_values) : axis_values[i][1] = "wght" }
    IN  IF hits = {} THEN 0 ELSE axis_values[CHOOSE i \in hits : TRUE][2]

\* max(1, floor(scaled_size * 0.025))
SyntheticStroke(scaled_size) == Max(1, (scaled_size * 25) \div 1000)

\* C21: an element with auto_bold has weight 700 forced: on a variable face
\* the instance is asked for at wght = 700 whatever fontWeight says, and on
\* a face that is not variable the run is drawn with a stroke of
\* max(1, floor(scaled_size * 0.025)) pixels.
C21_AutoBoldForces700 ==
    \A p \in DOMAIN gens :
        (gens[p].req.autoBold /\ gens[p].calls > 0 /\ gens[p].face # "") =>
            IF IsVariableFont(gens[p].face)
            THEN WghtOf(gens[p].settings) = 700
            ELSE DrawnStrokeWidth = SyntheticStroke(gens[p].req.fontSize)

\* The entries of a font map whose name is the family but for the case.
NamedAnyCase(map, family) ==
    { i \in 1..Len(map) : LowerName(map[i].name) = LowerName(family) }

\* C22: a family with a '-' that has neither an exact nor a case-insensitive
\* match is looked up again by its base name, the case-insensitive match of
\* the base included, before the default face is taken: the face resolved
\* is the one of an entry named as the base but for the case.
C22_BaseNameAnyCase ==
    \A p \in DOMAIN gens :
        ( /\ gens[p].calls > 0
          /\ gens[p].face # ""
          /\ Len(gens[p].family) > 1
          /\ NamedAnyCase(gens[p].map, gens[p].family) = {}
          /\ NamedAnyCase(gens[p].map, <<gens[p].family[1]>>) # {} )
        => \E i \in NamedAnyCase(gens[p].map, <<gens[p].family[1]>>) :
               gens[p].face = gens[p].map[i].path

\* The calls of _create_instance_of_variable_font that returned a path, over
\* all generators.
InstancesMade ==
    UNION { { gens[p].hist[i] : i \in 1..Len(gens[p].hist) } : p \in DOMAIN gens }

\* C23: the path of an instance depends only on the face and on the set of
\* (axis, value) pairs, not on the order the axes are listed in: two calls
\* with the same face and the same pairs return the same path, so the two
\* of them leave one file.
C23_InstancePathUnordered ==
    \A a, b \in InstancesMade :
        ( /\ a.ret # "" /\ b.ret # ""
          /\ a.face = b.face
          /\ SameAxisValues(a.axes, b.axes) )
        => /\ a.ret = b.ret
           /\ Cardinality({ f \in InstanceFiles : f \in {a.ret, b.ret} }) = 1

\* The glyphs drawn for the element handled last, in the order of drawing.
DrawnTextOfCur == [i \in 1..Len(DrawnForCur) |-> DrawnForCur[i].ch]

\* The width of the run of the element handled last at its final size, in
\* half pixels: the unit of the arc.
ArcOfCur ==
    2 * SumWidths([size |-> cur.final_font_size], DrawnTextOfCur)

\* C24: with layout_mode startAligned the first glyph starts at base_angle;
\* with centerAligned it starts at (base_angle - total_angle / 2) mod 360,
\* total_angle being the arc angle at the final font size; the arc from the
\* start angle to the end of the last glyph has length total_angle and, when
\* centred, its middle is base_angle.
C24_CircularStartAngle ==
    (Handled /\ cur.path = "circular" /\ cur.raised = NoException) =>
        /\ data.textElements[cur.match].position.layoutMode = "startAligned" =>
               cur.start_angle =
                   Angle(data.textElements[cur.match].position.baseAngle, 0)
        /\ data.textElements[cur.match].position.layoutMode = "centerAligned" =>
               /\ (cur.start_angle.deg
                      - data.textElements[cur.match].position.baseAngle)
                     % FullCircle = 0
               /\ 2 * cur.start_angle.off = 0 - ArcOfCur
               /\ cur.start_angle.deg * MicroDeg
                      >= HalfAngleCeil(cur.total_angle, cur.total_angle_rem)
               /\ (cur.start_angle.deg - FullCircle) * MicroDeg
                      < HalfAngleCeil(cur.total_angle, cur.total_angle_rem)
               /\ cur.start_angle.off + cur.end_angle.off = 0
        /\ cur.end_angle.deg = cur.start_angle.deg
        /\ cur.end_angle.off - cur.start_angle.off = ArcOfCur

\* A centred text on the base angle 30 was shrunk to its limit of 120
\* degrees and starts a turn later, at an angle between 270 and 360.
C24_Witness ==
    /\ Handled
    /\ cur.path = "circular"
    /\ cur.raised = NoException
    /\ cur.shrunk
    /\ cur.max_angle_limit = 120
    /\ data.textElements[cur.match].position.layoutMode = "centerAligned"
    /\ data.textElements[cur.match].position.baseAngle = 30
    /\ cur.start_angle.deg = 390
    /\ cur.start_angle.off < 0
    /\ cur.end_angle.off > 0

\* The glyph the face has for a character (its cmap): the glyph named by a
\* letter, the glyphs one and space for "1" and " ".
BaseGlyph(char) ==
    CASE char = "1" -> <<"one">>
      [] char = " " -> <<"space">>
      [] OTHER -> <<char>>

\* The glyph names of the face for a character: the base glyph and its
\* named alternates char.1, char.2, ...
GlyphNamesOf(char) ==
    { GlyphOrder[i] : i \in { j \in 1..Len(GlyphOrder) :
                                 \/ GlyphOrder[j] = BaseGlyph(char)
                                 \/ /\ Len(GlyphOrder[j]) = 2
                                    /\ GlyphOrder[j][1] = char } }

\* The glyph a variant index stands for: the base glyph for 0, char.v for v,
\* and the base glyph again for an index out of range.
VariantGlyph(char, v) ==
    IF v < 0 \/ v >= Cardinality(GlyphNamesOf(char)) \/ v = 0
    THEN BaseGlyph(char)
    ELSE <<char, ToString(v)>>

\* C25: only the first and the last character of the text can receive a
\* variant, every other character has its base glyph; an index out of range
\* (negative or >= the number of glyph names of the character) or a
\* character without named alternates falls back to the glyph of the base
\* character; in a text of one character with both variants set the first
\* variant is the one applied.
C25_VariantsAtEndsOnly ==
    (Handled /\ cur.path = "variant") =>
        /\ Len(cur.glyphs) = Len(TextAsked(data.textElements[cur.idx]))
        /\ \A i \in 1..Len(cur.glyphs) :
              GlyphOrder[cur.glyphs[i] + 1] =
                  IF i = 1 /\ IsSome(data.textElements[cur.match].firstVariant)
                  THEN VariantGlyph(TextAsked(data.textElements[cur.idx])[i],
                                    Val(data.textElements[cur.match].firstVariant))
                  ELSE IF /\ i = Len(cur.glyphs)
                          /\ IsSome(data.textElements[cur.match].lastVariant)
                  THEN VariantGlyph(TextAsked(data.textElements[cur.idx])[i],
                                    Val(data.textElements[cur.match].lastVariant))
                  ELSE BaseGlyph(TextAsked(data.textElements[cur.idx])[i])

\* The width of the run of the element handled last as it is measured
\* first, at the scaled font size.
RunWidthOfCur ==
    TextWidth(GetPilFont(font_map, FamilyAsked(data.textElements[cur.idx]),
                         cur.scaled_font_size),
              TextAsked(data.textElements[cur.idx]))

\* run_width + (n - 1) * extra > available width, with
\* extra = avg_advance * (letter_spacing - 1.0) and avg_advance =
\* run_width / n; letter_spacing in tenths.
SpacedTooWide(run_width, n, letter_spacing, avail) ==
    10 * n * run_width + (n - 1) * run_width * (letter_spacing - 10)
        > 10 * n * avail

\* C26: the fit-to-width test of a linear element accounts for the letter
\* spacing: with letter_spacing # 1.0 the width compared with the available
\* width is run_width + (n - 1) * extra, so a text that fits only without
\* the extra spacing is shrunk.
C26_FitCountsLetterSpacing ==
    ( /\ Handled
      /\ cur.path = "linear"
      /\ data.textElements[cur.match].position.letterSpacing # 10
      /\ SpacedTooWide(RunWidthOfCur,
                       Len(TextAsked(data.textElements[cur.idx])),
                       data.textElements[cur.match].position.letterSpacing,
                       cur.avail) )
    => cur.shrunk

\* An unrotated linear element was placed.
PlacedUnrotated ==
    /\ Handled
    /\ cur.path = "linear"
    /\ data.textElements[cur.idx].position.rotation = 0

\* text_padding / 2 * scale_factor, or 10 * scale_factor without a padding,
\* as a fraction of a pixel
MarginAsStated(e) ==
    IF IsSome(e.textPadding)
    THEN [ n |-> Val(e.textPadding) * scale_factor.num, d |-> 2 * scale_factor.den ]
    ELSE [ n |-> 10 * scale_factor.num, d |-> scale_factor.den ]

\* The same margin in whole pixels, the fraction cut off.
MarginInPixels(e) == MarginAsStated(e).n \div MarginAsStated(e).d

\* C27 (as stated): the final place_x of an unrotated linear element is at
\* least the margin, and place_x + text_width is at most W - margin whenever
\* text_width <= W - 2 * margin, the margin being text_padding / 2 *
\* scale_factor, or 10 * scale_factor without a padding.
C27_PlacedWithinMargins ==
    PlacedUnrotated =>
        /\ cur.placed.n * MarginAsStated(data.textElements[cur.match]).d
              >= MarginAsStated(data.textElements[cur.match]).n * cur.placed.d
        /\ (cur.text_width * 2 * MarginAsStated(data.textElements[cur.match]).n
               <= (width - cur.text_width)
                     * MarginAsStated(data.textElements[cur.match]).d)
           => (cur.placed.n + cur.text_width * cur.placed.d)
                 * MarginAsStated(data.textElements[cur.match]).d
              <= ( width * MarginAsStated(data.textElements[cur.match]).d
                     - MarginAsStated(data.textElements[cur.match]).n )
                   * cur.placed.d

\* C27 (amended): the same with the margin in whole pixels,
\* int(text_padding / 2 * scale_factor) or int(10 * scale_factor).
C27_PlacedWithinPixelMargins ==
    PlacedUnrotated =>
        /\ cur.margin = MarginInPixels(data.textElements[cur.match])
        /\ cur.placed.n >= cur.margin * cur.placed.d
        /\ cur.text_width <= width - 2 * cur.margin
           => cur.placed.n + cur.text_width * cur.placed.d
                 <= (width - cur.margin) * cur.placed.d

\* A left-aligned text asked for at the right edge of a canvas of 1000
\* pixels was moved left to end at the right margin, 30 pixels wide.
C27_Witness ==
    /\ PlacedUnrotated
    /\ data.textElements[cur.idx].position.x = 195
    /\ data.textElements[cur.idx].position.textAlign = "left"
    /\ IsSome(data.textElements[cur.match].textPadding)
    /\ scale_factor.den > 1
    /\ cur.text_width > 0
    /\ cur.text_width < width - 2 * cur.margin
    /\ cur.placed.n = (width - cur.text_width - cur.margin) * cur.placed.d

\* a / b > c / d for fractions with positive denominators
FracGreater(a, b) == a.n * b.d > b.n * a.d

\* C28: in the entry written when a circular element is shrunk, scaledSize is
\* the size before the shrink (the declared size times the global scale) and
\* finalSize the shrunk one: when the shrink reduced the size,
\* originalSize > adjustedSize and scaledSize > finalSize.
C28_CircularEntrySizes ==
    ( /\ Handled
      /\ cur.path = "circular"
      /\ cur.wrote # ""
      /\ cur.final_font_size < cur.scaled_font_size )
    => /\ font_size_adjustments[cur.wrote].scaledSize = cur.scaled_font_size
       /\ font_size_adjustments[cur.wrote].finalSize = cur.final_font_size
       /\ font_size_adjustments[cur.wrote].scaledSize
             > font_size_adjustments[cur.wrote].finalSize
       /\ FracGreater(font_size_adjustments[cur.wrote].originalSize,
                      font_size_adjustments[cur.wrote].adjustedSize)

\* The entry of the report under the id of the element handled last.
EntryOfCur == font_size_adjustments[data.textElements[cur.idx].id]

\* C29: a linear element with an id that is not rendered with variants
\* always gets an adjustment entry, also when it was not shrunk:
\* textScaleFactor = 1.0 and finalSize = scaledSize = int(fontSize *
\* scale_factor) exactly when the measured width was within the available
\* width, finalSize < scaledSize when it was shrunk, and
\* adjustedSize = finalSize / scaleFactor.
C29_LinearAlwaysReported ==
    ( /\ Handled
      /\ cur.path = "linear"
      /\ data.textElements[cur.idx].id # "" )
    => /\ data.textElements[cur.idx].id \in DOMAIN font_size_adjustments
       /\ EntryOfCur.scaledSize
             = IntMulScale(data.textElements[cur.idx].fontSize, scale_factor)
       /\ (RunWidthOfCur <= cur.avail)
             <=> /\ EntryOfCur.textScaleFactor = One
                 /\ EntryOfCur.finalSize = EntryOfCur.scaledSize
       /\ (RunWidthOfCur > cur.avail)
             => EntryOfCur.finalSize < EntryOfCur.scaledSize
       /\ EntryOfCur.adjustedSize.n * EntryOfCur.scaleFactor.n
             = EntryOfCur.finalSize * EntryOfCur.scaleFactor.d
                 * EntryOfCur.adjustedSize.d

\* C30: for any list of n orders process_json_data counts every order once:
\* slides_created + the number of reported errors = n, an order that raises
\* does not stop the later ones (every order that does not raise has its
\* slide), and the saved presentation holds slides_created slides: a failed
\* order leaves no slide behind.
C30_EveryOrderCountedOnce ==
    (basket_pc = "done" /\ basket_result.success) =>
        /\ basket_result.slides_created + Len(basket_result.errors)
              = Len(orders_data)
        /\ \A i \in 1..Len(orders_data) :
              SlideRaises(orders_data[i]) = NoException =>
                  \E j \in 1..Len(basket_result.slides) :
                      basket_result.slides[j] = Slide(i, TRUE)
        /\ Len(basket_result.slides) = basket_result.slides_created
        /\ \A j \in 1..Len(basket_result.slides) :
              basket_result.slides[j].filled

====
